---- MODULE Spec2Model ----
(***************************************************************************)
(* CodeMind: the memory corpus, the Selector (relevance scoring and        *)
(* selection), the Context Compressor, the code Validator and the editor   *)
(* glue that schedules validations and publishes diagnostics.              *)
(*                                                                         *)
(* Text.  A JavaScript string is modelled as a sequence of lexemes: each   *)
(* element is a run of characters that the texts of the model never split  *)
(* ("panic(", " ", or "[jinzhi]" for the word U+7981 U+6B62).             *)
(* String.includes is containment of a contiguous subsequence, length is   *)
(* the sum of the lexemes' lengths.                                        *)
(***************************************************************************)
EXTENDS Integers, Sequences, FiniteSets, TLC

VARIABLES
    memories,   \* the stored corpus (memories.json), a sequence of Memory
    sel,        \* the last call of getRelevantMemoriesForFile: its argument and result
    cmp,        \* the last call of formatMemoriesAsContext: its arguments and result
    vld,        \* the validator object: a CodeValidator and its ArchitectureChecker
    now,        \* the clock, Date.now()
    last,       \* the last call of validateCode: its number, arguments and result
    texts,      \* the version of the text of every open document
    timer,      \* validationTimer: the timeout of the last document change
    opening,    \* the documents whose timeout of onDidOpenTextDocument is pending
    diag,       \* the diagnostic collection of the extension, by document
    manual,     \* the diagnostic collections showValidationResult has created
    done,       \* the last completed validation: its document and diagnostics
    awaiting,   \* the documents changed since their last scheduled validation
    missing,    \* the fields the entries of memories.json lack: <<position, field>>
    outcome,    \* the last run on the stored entries: what it returned or that it threw
    buffer,     \* the text model of the editor: its version and the blocks it holds
    seen,       \* the document as the extension sees it
    edits,      \* the edits of editor.edit that are on their way to the text model
    cursorRules, \* whether .cursorrules holds the memories
    report,     \* the last report of the injectMemories command
    knownPatterns, \* CodePatternRecognizer.patterns
    found,      \* the last results of recognizePatterns and detectPatternInconsistencies
    versions,   \* MemoryVersionManager.versions
    currentVersion, \* MemoryVersionManager.currentVersion
    rolled,     \* the last call of rollbackToVersion
    upkeep,     \* the last call of cleanExpiredMemories, mergeMemories or autoAdjustImportance
    calls,      \* the calls of the store that have begun, oldest first
    rulesFile,  \* the text of .cursorrules
    ruleCall    \* the last call of injectViaCursorRules

injectorVars == <<sel, cmp>>
validatorVars == <<vld, now, last>>
editorVars == <<texts, timer, opening, diag, manual, done, awaiting>>
faultVars == <<missing, outcome>>
injectionVars == <<buffer, seen, edits, cursorRules, report>>
recognizerVars == <<knownPatterns, found>>
historyVars == <<versions, currentVersion, rolled>>
maintVars == <<upkeep, calls, rulesFile, ruleCall>>
serviceVars == <<faultVars, injectionVars, recognizerVars, historyVars, maintVars>>
vars == <<memories, injectorVars, validatorVars, editorVars, serviceVars>>

(***************************************************************************)
(* Bounds of the model.                                                    *)
(***************************************************************************)
MaxPrefix == 2      \* free records at the head of a Selector corpus
MaxFill == 21       \* plain critical records that follow them
MaxSel == 2         \* free records at the head of a Compressor selection
MaxCmpFill == 10    \* short critical records that follow them
MaxBudget == 6      \* the small token budgets tried
MaxCorpus == 1      \* free records of a Validator corpus
MaxCalls == 2       \* calls of validateCode on one validator
MaxTicks == 2       \* steps of the clock
MaxStore == 1       \* records the store may gain
MaxOpening == 1     \* pending timeouts of onDidOpenTextDocument
MaxManual == 1      \* runs of the verifyCode command
MaxEdits == 3       \* edits injectMemoriesToEditor may send to one document
MaxVersions == 4    \* versions of that document
MaxHistory == 4     \* entries of the version history
MaxUpkeep == 2      \* records of the store the maintenance runs on
MaxOverlap == 2     \* operations on the store in flight together
MaxHeld == 2        \* records the store holds when operations overlap
MaxRules == 2       \* records passed to one injection through .cursorrules
MaxInjections == 3  \* injections through .cursorrules

(***************************************************************************)
(* Generic sequence and text helpers.                                      *)
(***************************************************************************)
Max(a, b) == IF a >= b THEN a ELSE b
Min(a, b) == IF a <= b THEN a ELSE b

\* The sum of a sequence of numbers, by halves (texts may be hundreds of
\* lexemes long).
RECURSIVE SumSeq(_)
SumSeq(s) ==
    IF Len(s) = 0 THEN 0
    ELSE IF Len(s) = 1 THEN s[1]
    ELSE SumSeq(SubSeq(s, 1, Len(s) \div 2)) + SumSeq(SubSeq(s, Len(s) \div 2 + 1, Len(s)))

Indices(s) == [i \in 1..Len(s) |-> i]

RECURSIVE Flatten(_)
Flatten(ss) == IF ss = <<>> THEN <<>> ELSE Head(ss) \o Flatten(Tail(ss))

Count(s, Test(_)) == Len(SelectSeq(s, Test))

\* Array.prototype.map, and a loop that pushes one element for each element
Map(s, F(_)) == [i \in 1..Len(s) |-> F(s[i])]

\* The least and the greatest element of a non-empty set of integers
FirstIn(S) == CHOOSE x \in S : \A y \in S : x <= y
LastIn(S) == CHOOSE x \in S : \A y \in S : y <= x

SeqsUpTo(S, n) == UNION {[1..k -> S] : k \in 0..n}

\* Array.prototype.slice(start, end): a negative index counts from the end.
JsIndex(n, len) == IF n < 0 THEN Max(len + n, 0) ELSE Min(n, len)
Slice(s, start, end) ==
    LET a == JsIndex(start, Len(s))
        b == JsIndex(end, Len(s))
    IN  IF b <= a THEN <<>> ELSE SubSeq(s, a + 1, b)

\* String.prototype.toLowerCase, lexeme by lexeme.
Lower(a) ==
    CASE a = "Auth" -> "auth"
      [] a = "Service" -> "service"
      [] a = "Login" -> "login"
      [] a = "EVAL" -> "eval"
      [] a = "Forbidden" -> "forbidden"
      [] a = "Panic(" -> "panic("
      [] a = "Arch" -> "arch"
      [] a = "Bool" -> "bool"
      [] a = "Error" -> "error"
      [] a = "GetUser" -> "getuser"
      [] a = "Int" -> "int"
      [] a = "MAX_SIZE" -> "max_size"
      [] a = "PascalCase" -> "pascalcase"
      [] a = "Request" -> "request"
      [] a = "Response" -> "response"
      [] a = "String" -> "string"
      [] a = "U" -> "u"
      [] a = "UPPER_SNAKE_CASE" -> "upper_snake_case"
      [] a = "UserName" -> "username"
      [] a = "UserService" -> "userservice"
      [] a = "camelCase" -> "camelcase"
      [] a = "getUser" -> "getuser"
      [] a = "userName" -> "username"
      [] a = "Context" -> "context"
      [] a = "Information" -> "information"
      [] a = "Warning" -> "warning"
      [] OTHER -> a
LowerText(t) == [i \in 1..Len(t) |-> Lower(t[i])]

\* String.prototype.includes
Includes(t, p) == \E i \in 0..(Len(t) - Len(p)) : SubSeq(t, i + 1, i + Len(p)) = p

\* The lexemes that stand for CJK text or full-width punctuation, written in
\* brackets: "[jinzhi]" is the two characters U+7981 U+6B62.  Each maps to the
\* number of characters it stands for.
CjkWord == {"[jinzhi]", "[buyunxu]", "[bixu]", "[yinggai]", "[buneng]", "[yaoqiu]",
            "[mingming]", "[guifan]", "[tuofeng]", "[shexing]", "[pasika]",
            "[xiahuaxian]", "[zhushi]", "[mulu]", "[jiegou]", "[wenjianjia]",
            "[mokuai]", "[yilai]", "[ceng]", "[hanshu]", "[daima]", "[changdu]",
            "[ruguo]", "[ze]", "[dang]", "[shi]", "[zhifu]", "[dingdan]",
            "[de]", "[le]", "[he]", "[huo]", "[yiji]", "[haiyou]", "[zhong]",
            "[shi4]", "[zai]", "[you]"}
CjkPunct == {"[:]", "[,]", "[.]", "[!]", "[?]", "[;]", "[dun]"}
CjkChars(a) ==
    CASE a \in {"[de]", "[le]", "[he]", "[huo]", "[ceng]", "[ze]", "[dang]", "[shi]",
                "[zhong]", "[shi4]", "[zai]", "[you]"} -> 1
      [] a \in {"[buyunxu]", "[pasika]", "[xiahuaxian]", "[wenjianjia]"} -> 3
      [] OTHER -> 2

\* String.prototype.length
Width(a) == IF a \in CjkWord THEN CjkChars(a) ELSE IF a \in CjkPunct THEN 1 ELSE Len(a)
CharLen(t) == SumSeq([i \in 1..Len(t) |-> Width(t[i])])

IsWs(a) == a \in {" ", "\n", "\t"}

\* Array.prototype.join(' ')
RECURSIVE JoinSp(_)
JoinSp(ts) ==
    IF ts = <<>> THEN <<>>
    ELSE IF Len(ts) = 1 THEN ts[1]
    ELSE ts[1] \o <<" ">> \o JoinSp(Tail(ts))

\* String.prototype.split(/\s+/) without the empty pieces a leading or trailing
\* run of white space gives: both callers filter the pieces by a test that an
\* empty piece fails.
SplitWs(t) ==
    LET starts == SelectSeq(Indices(t), LAMBDA i : ~IsWs(t[i]) /\ (i = 1 \/ IsWs(t[i - 1])))
        ends == SelectSeq(Indices(t),
                          LAMBDA i : ~IsWs(t[i]) /\ (i = Len(t) \/ IsWs(t[i + 1])))
    IN  [k \in 1..Len(starts) |-> SubSeq(t, starts[k], ends[k])]

(***************************************************************************)
(* The memory record (memoryStorage.ts).                                   *)
(***************************************************************************)
Importances == {"critical", "high", "medium", "low"}
Categories == {"architecture", "code_style", "business_rule", "api_spec", "database",
               "config", "constraint", "documentation", "other"}

Mem(id, content, category, importance, tags, relatedFiles) ==
    [id |-> id, content |-> content, category |-> category,
     importance |-> importance, tags |-> tags, relatedFiles |-> relatedFiles]

WithId(m, id) == [m EXCEPT !.id = id]
Ids(ms) == {ms[i].id : i \in 1..Len(ms)}
IsCritical(m) == m.importance = "critical"

(***************************************************************************)
(* Feature extraction (MemoryInjector.extractCodeFeatures).  The file on   *)
(* disk is the environment: a file is its path, whether it can be opened,  *)
(* and the names its text declares.                                        *)
(***************************************************************************)
LastSlash(p) ==
    LET S == {i \in 1..Len(p) : p[i] = "/"} IN
    IF S = {} THEN 0 ELSE CHOOSE i \in S : \A j \in S : j <= i

Basename(p) == SubSeq(p, LastSlash(p) + 1, Len(p))
Dirname(p) == IF LastSlash(p) = 0 THEN <<".">> ELSE SubSeq(p, 1, LastSlash(p) - 1)

\* filePath.split(/[/\\]/)
RECURSIVE PathParts(_, _)
PathParts(p, cur) ==
    IF p = <<>> THEN <<cur>>
    ELSE IF Head(p) = "/" THEN <<cur>> \o PathParts(Tail(p), <<>>)
    ELSE PathParts(Tail(p), Append(cur, Head(p)))

ListCap == 20

extractCodeFeatures(file) ==
    IF file.readable
    THEN [filePath |-> file.path, fileName |-> Basename(file.path),
          fileDir |-> Dirname(file.path),
          functions |-> Slice(file.functions, 0, ListCap),
          classes |-> Slice(file.classes, 0, ListCap),
          imports |-> Slice(file.imports, 0, ListCap),
          keywords |-> Slice(file.keywords, 0, ListCap)]
    ELSE [filePath |-> file.path, fileName |-> Basename(file.path),
          fileDir |-> Dirname(file.path),
          functions |-> <<>>, classes |-> <<>>, imports |-> <<>>,
          keywords |-> PathParts(file.path, <<>>) \o <<Basename(file.path)>>]

(***************************************************************************)
(* Relevance scoring (MemoryInjector.calculateRelevance).  Scores are kept *)
(* in tenths, so that the multipliers 1.5 and 1.2 stay integers.           *)
(***************************************************************************)
CriticalBonus == 100
RelatedFileBonus == 50
TagWeight == 10
FunctionWeight == 5
ClassWeight == 5
ImportWeight == 3
KeywordWeight == 2
WordWeight == 1
HighFactor == 15
MediumFactor == 12
PlainFactor == 10

AnyIn(ts, Test(_)) == \E i \in 1..Len(ts) : Test(ts[i])

matchingTags(memory, f) ==
    SelectSeq(memory.tags, LAMBDA tag :
        LET tagLower == LowerText(tag) IN
           \/ Includes(LowerText(f.fileName), tagLower)
           \/ Includes(LowerText(f.fileDir), tagLower)
           \/ AnyIn(f.functions, LAMBDA x : Includes(LowerText(x), tagLower))
           \/ AnyIn(f.classes, LAMBDA x : Includes(LowerText(x), tagLower))
           \/ AnyIn(f.keywords, LAMBDA x : Includes(LowerText(x), tagLower)))

InContentOrTags(memory, w) ==
    \/ Includes(LowerText(memory.content), LowerText(w))
    \/ AnyIn(memory.tags, LAMBDA t : Includes(LowerText(t), LowerText(w)))

commonWords(memory, f) ==
    SelectSeq(SplitWs(LowerText(JoinSp(f.functions \o f.classes \o f.keywords))),
              LAMBDA word : CharLen(word) > 3 /\ Includes(LowerText(memory.content), word))

rawScore(memory, f) ==
      (IF IsCritical(memory) THEN CriticalBonus ELSE 0)
    + (IF AnyIn(memory.relatedFiles, LAMBDA r :
              Includes(f.filePath, r) \/ Includes(r, f.filePath))
       THEN RelatedFileBonus ELSE 0)
    + Len(matchingTags(memory, f)) * TagWeight
    + Count(f.functions, LAMBDA x : InContentOrTags(memory, x)) * FunctionWeight
    + Count(f.classes, LAMBDA x : InContentOrTags(memory, x)) * ClassWeight
    + Count(f.imports, LAMBDA x : Includes(LowerText(memory.content), LowerText(x)))
          * ImportWeight
    + Count(f.keywords, LAMBDA x : InContentOrTags(memory, x)) * KeywordWeight
    + Len(commonWords(memory, f)) * WordWeight

\* The score times ten without the weighting by importance
calculateRelevanceUnweighted(memory, f) == rawScore(memory, f) * PlainFactor
\* The score times ten.
calculateRelevance(memory, f) ==
    rawScore(memory, f) *
        (IF memory.importance = "high" THEN HighFactor
         ELSE IF memory.importance = "medium" THEN MediumFactor
         ELSE PlainFactor)

(***************************************************************************)
(* Selection (MemoryInjector.getRelevantMemoriesForFile).                  *)
(***************************************************************************)
ScoreThreshold == 10
TotalCap == 20

\* An insertion that puts a record before the records of its own score
RECURSIVE InsertBeforeEqual(_, _)
InsertBeforeEqual(sorted, x) ==
    IF sorted = <<>> THEN <<x>>
    ELSE IF Head(sorted).score > x.score
         THEN <<Head(sorted)>> \o InsertBeforeEqual(Tail(sorted), x)
         ELSE <<x>> \o sorted

\* Array.prototype.sort((a, b) => b.score - a.score): stable, descending.
RECURSIVE InsertByScore(_, _)
InsertByScore(sorted, x) ==
    IF sorted = <<>> THEN <<x>>
    ELSE IF Head(sorted).score >= x.score
         THEN <<Head(sorted)>> \o InsertByScore(Tail(sorted), x)
         ELSE <<x>> \o sorted

RECURSIVE SortByScore(_)
SortByScore(s) ==
    IF s = <<>> THEN <<>>
    ELSE InsertByScore(SortByScore(SubSeq(s, 1, Len(s) - 1)), s[Len(s)])

MemoriesOf(mrs) == [i \in 1..Len(mrs) |-> mrs[i].memory]

criticalMemoriesCapped(mrs) ==
    Slice(SelectSeq(mrs, LAMBDA mr : IsCritical(mr.memory)), 0, TotalCap)

criticalMemories(mrs) == SelectSeq(mrs, LAMBDA mr : IsCritical(mr.memory))

\* A filter that also lets through the records whose score is the threshold
otherMemoriesInclusive(mrs) ==
    SelectSeq(mrs, LAMBDA mr : ~IsCritical(mr.memory) /\ mr.score >= ScoreThreshold * 10)
otherMemories(mrs) ==
    SelectSeq(mrs, LAMBDA mr : ~IsCritical(mr.memory) /\ mr.score > ScoreThreshold * 10)

NoFile == [path |-> <<>>, readable |-> FALSE, functions |-> <<>>, classes |-> <<>>,
           imports |-> <<>>, keywords |-> <<>>]

getRelevantMemoriesForFile(ms, file) ==
    IF file.path = <<>>
    THEN SelectSeq(ms, LAMBDA m : m.importance \in {"critical", "high"})
    ELSE LET features == extractCodeFeatures(file)
             memoryRelevances ==
                 SortByScore([i \in 1..Len(ms) |->
                     [memory |-> ms[i], score |-> calculateRelevance(ms[i], features)]])
             crit == MemoriesOf(criticalMemories(memoryRelevances))
             remaining == TotalCap - Len(crit)
         IN  crit \o MemoriesOf(Slice(otherMemories(memoryRelevances), 0, remaining))

(***************************************************************************)
(* Context compression (MemoryInjector.compressContent, estimateTokens,    *)
(* compressMemories, formatMemoriesAsContext).                             *)
(***************************************************************************)
\* content.replace(/\s+/g, ' '): every run of white space becomes one blank.
CollapseWs(t) ==
    LET kept == SelectSeq(Indices(t), LAMBDA i : ~(IsWs(t[i]) /\ i > 1 /\ IsWs(t[i - 1])))
    IN  [k \in 1..Len(kept) |-> IF IsWs(t[kept[k]]) THEN " " ELSE t[kept[k]]]

\* String.prototype.trim
Span(t, solid) == IF solid = <<>> THEN <<>> ELSE SubSeq(t, solid[1], solid[Len(solid)])
Trim(t) == Span(t, SelectSeq(Indices(t), LAMBDA i : ~IsWs(t[i])))

redundantWords == {"[de]", "[le]", "[he]", "[huo]", "[yiji]", "[haiyou]"}

AggressiveLimit == 200
AggressiveSlice == 100
LightLimit == 300
Ellipsis == <<"...">>

\* String.prototype.substring(from, to), in characters.  The texts long enough
\* to be cut are made of one-character lexemes, so a cut never splits a lexeme.
\* The number of leading lexemes of t that fit in n characters, by halves.
RECURSIVE FitCount(_, _)
FitCount(t, n) ==
    IF Len(t) = 0 THEN 0
    ELSE IF Len(t) = 1 THEN (IF Width(t[1]) <= n THEN 1 ELSE 0)
    ELSE LET h == Len(t) \div 2
             w == CharLen(SubSeq(t, 1, h))
         IN  IF w <= n THEN h + FitCount(SubSeq(t, h + 1, Len(t)), n - w)
             ELSE FitCount(SubSeq(t, 1, h), n)
TakeChars(t, n) == SubSeq(t, 1, FitCount(t, n))
DropChars(t, n) == SubSeq(t, FitCount(t, n) + 1, Len(t))

compressContent(content, aggressive) ==
    LET collapsed == Trim(CollapseWs(content))
        stripped == IF aggressive
                    THEN SelectSeq(collapsed, LAMBDA a : a \notin redundantWords)
                    ELSE collapsed
        n == CharLen(stripped)
    IN  IF n > AggressiveLimit /\ aggressive
        THEN TakeChars(stripped, AggressiveSlice) \o Ellipsis
                 \o DropChars(stripped, n - AggressiveSlice)
        ELSE IF n > LightLimit
        THEN TakeChars(stripped, LightLimit) \o Ellipsis
        ELSE stripped

\* Lexemes without a Latin letter.
NoLetter == {" ", "\n", "\t", ":", ",", ".", "...", "/", "(", ")", "=", "{", "}",
             "1", "\"", "//", "#"}
HasLatin(a) == a \notin CjkWord \cup CjkPunct \cup NoLetter

\* Math.ceil(chineseChars * 1.5 + englishWords)
estimateTokens(text) ==
    LET chineseChars ==
            SumSeq([i \in 1..Len(text) |->
                       IF text[i] \in CjkWord THEN CjkChars(text[i]) ELSE 0])
        englishWords ==
            Count(SplitWs(text), LAMBDA w : \E i \in 1..Len(w) : HasLatin(w[i]))
    IN  (3 * chineseChars + 2 * englishWords + 1) \div 2

Reverse(s) == [i \in 1..Len(s) |-> s[Len(s) + 1 - i]]

\* A sort by importance that is not stable: it reverses the records of a tier.
sortByImportanceUnstable(ms) ==
    Reverse(SelectSeq(ms, LAMBDA m : m.importance = "critical"))
    \o Reverse(SelectSeq(ms, LAMBDA m : m.importance = "high"))
    \o Reverse(SelectSeq(ms, LAMBDA m : m.importance = "medium"))
    \o Reverse(SelectSeq(ms, LAMBDA m : m.importance = "low"))

\* [...memories].sort by importance order: the sort is stable, so the result is
\* the four tiers one after the other, each in its original order.
sortByImportance(ms) ==
    SelectSeq(ms, LAMBDA m : m.importance = "critical")
    \o SelectSeq(ms, LAMBDA m : m.importance = "high")
    \o SelectSeq(ms, LAMBDA m : m.importance = "medium")
    \o SelectSeq(ms, LAMBDA m : m.importance = "low")

ForcedCap == 20

fitsBudgetIgnoringRecord(tokenCount, contentTokens, maxTokens) == tokenCount <= maxTokens

fitsBudget(tokenCount, contentTokens, maxTokens) == tokenCount + contentTokens <= maxTokens

\* One entry of the result.  "forced" is a ghost field: it tells an entry pushed
\* by the else branch (line 497) from one pushed under the budget check.
Entry(memory, content, forced) ==
    [id |-> memory.id, importance |-> memory.importance, content |-> content,
     forced |-> forced]

\* The loop of compressMemories from its i-th record on.
RECURSIVE compressLoop(_, _, _, _, _)
compressLoop(sorted, i, compressed, tokenCount, maxTokens) ==
    IF i > Len(sorted) THEN compressed
    ELSE LET memory == sorted[i]
             compressedContent == compressContent(memory.content, FALSE)
             contentTokens == estimateTokens(compressedContent)
         IN  IF fitsBudget(tokenCount, contentTokens, maxTokens)
             THEN compressLoop(sorted, i + 1,
                               Append(compressed, Entry(memory, compressedContent, FALSE)),
                               tokenCount + contentTokens, maxTokens)
             ELSE IF IsCritical(memory) /\ Len(compressed) < ForcedCap
                  THEN Append(compressed,
                              Entry(memory, compressContent(memory.content, TRUE), TRUE))
                  ELSE compressed

compressMemories(ms, maxTokens) == compressLoop(sortByImportance(ms), 1, <<>>, 0, maxTokens)

DefaultMaxTokens == 2000
BundleCap == 10

Rule == "========================================"
Dashes == "----------------------------------------"
HeaderMarker == "CURSOR MEMORY CONTEXT"
FooterMarker == "END OF MEMORY CONTEXT"

BundleHeader ==
    <<"\n", "\n", Rule, "\n", HeaderMarker, " - PROJECT RULES", "\n", Rule, "\n",
      "These are the project memories and rules that MUST be followed.", "\n",
      "DO NOT modify or ignore these rules.", "\n", Rule, "\n", "\n">>
BundleFooter == <<Rule, "\n", FooterMarker, "\n", Rule, "\n", "\n">>

\* The line of one record: its bullet, its content, a line break.
BundleLine(bullet, content) == <<bullet>> \o content \o <<"\n">>

BundleTier(title, bullet, entries) ==
    <<title, "\n", Dashes, "\n">>
    \o Flatten([i \in 1..Len(entries) |-> BundleLine(bullet, entries[i].content)])
    \o <<"\n">>

\* The entries formatMemoriesAsContext prints, tier by tier (the three loops
\* over critical.slice, high.slice and medium.slice).
printedEntries(compressedMemories) ==
    LET critical == SelectSeq(compressedMemories, LAMBDA m : m.importance = "critical")
        high == SelectSeq(compressedMemories, LAMBDA m : m.importance = "high")
        medium == SelectSeq(compressedMemories, LAMBDA m : m.importance = "medium")
    IN  [critical |-> IF Len(critical) > 0 THEN Slice(critical, 0, BundleCap) ELSE <<>>,
         high |-> IF Len(high) > 0 /\ Len(critical) < BundleCap
                  THEN Slice(high, 0, BundleCap - Len(critical)) ELSE <<>>,
         medium |-> IF Len(medium) > 0 /\ Len(critical) + Len(high) < BundleCap
                    THEN Slice(medium, 0, BundleCap - Len(critical) - Len(high))
                    ELSE <<>>,
         hasCritical |-> Len(critical) > 0,
         hasHigh |-> Len(high) > 0 /\ Len(critical) < BundleCap,
         hasMedium |-> Len(medium) > 0 /\ Len(critical) + Len(high) < BundleCap]

formatMemoriesAsContext(ms, maxTokens) ==
    IF ms = <<>> THEN <<>>
    ELSE LET printed == printedEntries(compressMemories(ms, maxTokens))
         IN  BundleHeader
             \o (IF printed.hasCritical
                 THEN BundleTier("[CRITICAL] MUST FOLLOW - DO NOT VIOLATE:", "[check] ",
                                 printed.critical)
                 ELSE <<>>)
             \o (IF printed.hasHigh
                 THEN BundleTier("[HIGH] STRONGLY RECOMMENDED:", "[bullet] ", printed.high)
                 ELSE <<>>)
             \o (IF printed.hasMedium
                 THEN BundleTier("[MEDIUM] RECOMMENDED:", "- ", printed.medium)
                 ELSE <<>>)
             \o BundleFooter

(***************************************************************************)
(* Text matching used by the Validator.  The regular expressions of        *)
(* codeValidator.ts and architectureChecker.ts are evaluated on lexemes.   *)
(***************************************************************************)
Colons == {":", "[:]"}

\* The first index from i that holds no white space (Len(t) + 1 if none).
RECURSIVE SkipWs(_, _)
SkipWs(t, i) == IF i <= Len(t) /\ IsWs(t[i]) THEN SkipWs(t, i + 1) ELSE i

\* The last index of the longest run from i of lexemes outside Stops.
RECURSIVE RunEnd(_, _, _)
RunEnd(t, i, Stops) ==
    IF i <= Len(t) /\ t[i] \notin Stops THEN RunEnd(t, i + 1, Stops) ELSE i - 1

\* String.prototype.split on single separator characters.
RECURSIVE SplitOn(_, _, _)
SplitOn(t, Seps, cur) ==
    IF t = <<>> THEN <<cur>>
    ELSE IF Head(t) \in Seps THEN <<cur>> \o SplitOn(Tail(t), Seps, <<>>)
    ELSE SplitOn(Tail(t), Seps, Append(cur, Head(t)))

NonEmpty(t) == t # <<>>
TrimAll(ts) == Map(ts, Trim)

\* .split(/[sep]/).map(s => s.trim()).filter(s => s)
SplitItems(t, Seps) == SelectSeq(TrimAll(SplitOn(t, Seps, <<>>)), NonEmpty)

\* A match of a global regular expression: where it ends, and what it captures.
NoMatch == [ok |-> FALSE, end |-> 0, text |-> <<>>]
Match(end, text) == [ok |-> TRUE, end |-> end, text |-> text]

\* The matches String.match(/.../g) and matchAll return: leftmost first, each
\* search resuming after the end of the previous match.
RECURSIVE Leftmost(_, _)
Leftmost(ms, i) ==
    IF i > Len(ms) THEN <<>>
    ELSE IF ms[i].ok THEN <<ms[i].text>> \o Leftmost(ms, ms[i].end + 1)
    ELSE Leftmost(ms, i + 1)

\* /KW[U+FF1A:]\s*([^STOPS]+)/ at index i; the text is the match without its
\* "KW:" head (match.replace(/KW[U+FF1A:]\s*/, '')), not yet trimmed.
RunMatch(t, w, e) == Match(e, SubSeq(t, w, e))
ColonAt(t, k, Stops) ==
    IF k + 1 <= Len(t) /\ t[k] \in Colons /\ t[k + 1] \notin Stops
    THEN RunMatch(t, k + 1, RunEnd(t, k + 1, Stops)) ELSE NoMatch
KeywordRunAt(t, i, kw, Stops) ==
    IF i + Len(kw) + 1 <= Len(t) /\ SubSeq(t, i, i + Len(kw) - 1) = kw
    THEN ColonAt(t, i + Len(kw), Stops) ELSE NoMatch

KeywordRuns(t, kw, Stops) ==
    Leftmost([i \in 1..Len(t) |-> KeywordRunAt(t, i, kw, Stops)], 1)

\* /\s*(.+)/ from index k: the white space is skipped and the text runs to the
\* end of its line; when only white space is left, the last character of it that
\* is no line break is the text.
CharMatch(t, p) == Match(p, <<t[p]>>)
LastOf(t, P) == IF P = {} THEN NoMatch ELSE CharMatch(t, LastIn(P))
RestFrom(t, k, w) ==
    IF w <= Len(t) THEN RunMatch(t, w, RunEnd(t, w, {"\n"}))
    ELSE LastOf(t, {p \in k..Len(t) : t[p] # "\n"})
RestOfLine(t, k) == RestFrom(t, k, SkipWs(t, k))

\* The first match of a regular expression evaluated at every index.
FirstOk(ms, S) == IF S = {} THEN NoMatch ELSE ms[FirstIn(S)]
FirstMatch(ms) == FirstOk(ms, {i \in 1..Len(ms) : ms[i].ok})

CommaStops == {"[.]", "[,]"}
ClauseStops == {"[.]", "[,]", "[;]"}
ItemSeps == {"[,]", "[dun]", ","}

Jinzhi == <<"[jinzhi]">>
Buyunxu == <<"[buyunxu]">>
Bixu == <<"[bixu]">>
Yaoqiu == <<"[yaoqiu]">>

\* CodeValidator.extractForbiddenPatterns
extractForbiddenPatterns(content) ==
    SelectSeq(TrimAll(KeywordRuns(content, Jinzhi, CommaStops)), NonEmpty)

\* CodeValidator.extractForbiddenItems
extractForbiddenItems(content) ==
    SelectSeq(TrimAll(KeywordRuns(content, Jinzhi, CommaStops)), NonEmpty)

\* CodeValidator.extractRequiredItems
extractRequiredItems(content) ==
    SelectSeq(TrimAll(KeywordRuns(content, Bixu, CommaStops)), NonEmpty)

\* A diagnostic of the Validator.  memoryId is 0 and memoryContent is empty
\* where the code leaves them undefined.
Issue(type, message, memory) ==
    [type |-> type, message |-> message,
     memoryId |-> memory.id, memoryContent |-> memory.content]
NoMemory == [id |-> 0, content |-> <<>>]

\* A message: its wording (kind), the line it names (0 if none), the text it
\* quotes and the list it quotes.
Msg(kind, line, text, items) == [kind |-> kind, line |-> line, text |-> text, items |-> items]

\* issues.push inside a for loop over memories
IssuesOver(ms, PerMemory(_)) == Flatten([i \in 1..Len(ms) |-> PerMemory(ms[i])])

(***************************************************************************)
(* Naming checks (CodeValidator.checkNamingViolations and below).  A word  *)
(* of the code is one lexeme; Shape gives the classes of its characters:   *)
(* "l" a lower-case letter, "U" an upper-case letter, "_" the underscore.  *)
(***************************************************************************)
Lo(n) == [i \in 1..n |-> "l"]
Up(n) == [i \in 1..n |-> "U"]

LowerWords == {"var", "let", "const", "func", "function", "def", "fn", "class", "type",
               "struct", "interface", "int", "string", "float", "bool", "char", "void",
               "async", "import", "from", "return", "nil", "x", "err", "user", "name",
               "total", "eval", "fmt", "models", "controller", "service", "model"}
MixedWords == {"get_user", "getUser", "GetUser", "userName", "user_name", "UserName",
               "UserService", "MAX_SIZE", "String"}

Shape(a) ==
    CASE a = "get_user" -> Lo(3) \o <<"_">> \o Lo(4)
      [] a = "getUser" -> Lo(3) \o Up(1) \o Lo(3)
      [] a = "GetUser" -> Up(1) \o Lo(2) \o Up(1) \o Lo(3)
      [] a = "userName" -> Lo(4) \o Up(1) \o Lo(3)
      [] a = "user_name" -> Lo(4) \o <<"_">> \o Lo(4)
      [] a = "UserName" -> Up(1) \o Lo(3) \o Up(1) \o Lo(3)
      [] a = "UserService" -> Up(1) \o Lo(3) \o Up(1) \o Lo(6)
      [] a = "MAX_SIZE" -> Up(3) \o <<"_">> \o Up(4)
      [] a = "String" -> Up(1) \o Lo(5)
      [] OTHER -> Lo(Len(a))

\* \w+ and [a-zA-Z_][a-zA-Z0-9_]* match a whole word lexeme.
IsWord(a) == a \in LowerWords \cup MixedWords

\* \b before index i
WordStart(line, i) == i = 1 \/ ~IsWord(line[i - 1])

\* ^[first][rest]*$ on the character classes of a name
ShapeIs(shape, First, Rest) ==
    /\ shape[1] \in First
    /\ \A i \in 2..Len(shape) : shape[i] \in Rest

\* The character classes the naming regex of a style admits for the first
\* character and for the others; no regex for any other style.
styleFirst(style) ==
    IF style \in {"camelCase", "snake_case"} THEN {"l"} ELSE {"U"}
styleRest(style) ==
    CASE style \in {"camelCase", "PascalCase"} -> {"l", "U", "d"}
      [] style = "snake_case" -> {"l", "d", "_"}
      [] OTHER -> {"U", "d", "_"}

excluded == {"String", "Int", "Bool", "Error", "Context", "Request", "Response",
             "true", "false", "nil", "null", "undefined", "this", "self"}

isValidNaming(name, style) ==
    \/ name \in excluded
    \/ style \notin {"camelCase", "PascalCase", "snake_case", "UPPER_SNAKE_CASE"}
    \/ ShapeIs(Shape(name), styleFirst(style), styleRest(style))

getNamingRulesForLanguage(language, expectedStyle) ==
    CASE language = "go" ->
             [variable |-> "camelCase",
              function |-> IF expectedStyle = "PascalCase" THEN "PascalCase" ELSE "camelCase",
              class |-> "PascalCase", constant |-> "camelCase"]
      [] language \in {"java", "csharp"} ->
             [variable |-> "camelCase", function |-> "camelCase",
              class |-> "PascalCase", constant |-> "UPPER_SNAKE_CASE"]
      [] language = "python" ->
             [variable |-> "snake_case", function |-> "snake_case",
              class |-> "PascalCase", constant |-> "UPPER_SNAKE_CASE"]
      [] language \in {"javascript", "typescript"} ->
             [variable |-> "camelCase", function |-> "camelCase",
              class |-> "PascalCase", constant |-> "UPPER_SNAKE_CASE"]
      [] OTHER ->
             [variable |-> expectedStyle, function |-> expectedStyle,
              class |-> "PascalCase", constant |-> "UPPER_SNAKE_CASE"]

\* KW\s+(\w+) at index i: the index of the word, 0 if there is none.
WordIndex(line, j) == IF j <= Len(line) /\ IsWord(line[j]) THEN j ELSE 0
WordAfter(line, i) ==
    IF i + 1 <= Len(line) /\ IsWs(line[i + 1]) THEN WordIndex(line, SkipWs(line, i + 1))
    ELSE 0

\* A match that ends at index j (none if j is 0) and captures the word at j,
\* or the given text.
NameAt(line, j) == IF j > 0 THEN Match(j, line[j]) ELSE NoMatch
EndAt(j, text) == IF j > 0 THEN Match(j, text) ELSE NoMatch

\* /\b(?:var|let|const)\s+([a-zA-Z_][a-zA-Z0-9_]*)/g
VarDeclAt(line, i) ==
    IF line[i] \in {"var", "let", "const"} /\ WordStart(line, i)
    THEN NameAt(line, WordAfter(line, i)) ELSE NoMatch

StartsWithEq(a) == a \in {"=", "==", "===", "=>"}

\* /\b([a-zA-Z_][a-zA-Z0-9_]*)\s*[:=]\s*[^=]/g
AssignRest(line, i, k, w) ==
    IF w <= Len(line) /\ ~StartsWithEq(line[w]) THEN Match(w, line[i])
    ELSE IF w > k + 1 THEN Match(w - 1, line[i])
    ELSE NoMatch
AssignColon(line, i, k) ==
    IF k <= Len(line) /\ line[k] \in {":", "="}
    THEN AssignRest(line, i, k, SkipWs(line, k + 1)) ELSE NoMatch
AssignAt(line, i) ==
    IF IsWord(line[i]) /\ WordStart(line, i) THEN AssignColon(line, i, SkipWs(line, i + 1))
    ELSE NoMatch

\* /\b(int|string|float|bool|char)\s+([a-zA-Z_][a-zA-Z0-9_]*)/g: match[1], the
\* name the caller reads, is the type word.
TypedDeclAt(line, i) ==
    IF line[i] \in {"int", "string", "float", "bool", "char"} /\ WordStart(line, i)
    THEN EndAt(WordAfter(line, i), line[i]) ELSE NoMatch

\* /\bKW\s+(\w+)\s*\(/g for KW in Kws
\* The name at j, if "(" stands at k
OpenParenAt(line, j, k) ==
    IF k <= Len(line) /\ line[k] = "(" THEN Match(k, line[j]) ELSE NoMatch
ParenAfter(line, j) == IF j > 0 THEN OpenParenAt(line, j, SkipWs(line, j + 1)) ELSE NoMatch
FuncAt(line, i, Kws) ==
    IF line[i] \in Kws /\ WordStart(line, i) THEN ParenAfter(line, WordAfter(line, i))
    ELSE NoMatch

\* /const\s+(\w+)\s*=\s*(?:async\s+)?\(/g
ArrowParen(line, j, m) ==
    OpenParenAt(line, j,
                IF m <= Len(line) /\ line[m] = "async" /\ m + 1 <= Len(line)
                   /\ IsWs(line[m + 1])
                THEN SkipWs(line, m + 1) ELSE m)
ArrowEq(line, j, k) ==
    IF k <= Len(line) /\ line[k] = "=" THEN ArrowParen(line, j, SkipWs(line, k + 1))
    ELSE NoMatch
ArrowName(line, j) == IF j > 0 THEN ArrowEq(line, j, SkipWs(line, j + 1)) ELSE NoMatch
ArrowAt(line, i) ==
    IF line[i] = "const" THEN ArrowName(line, WordAfter(line, i)) ELSE NoMatch

\* /\btype\s+(\w+)\s+(?:struct|interface)/g
GoTypeKind(line, j, k) ==
    IF k > j + 1 /\ k <= Len(line) /\ line[k] \in {"struct", "interface"}
    THEN Match(k, line[j]) ELSE NoMatch
GoTypeName(line, j) == IF j > 0 THEN GoTypeKind(line, j, SkipWs(line, j + 1)) ELSE NoMatch
GoTypeAt(line, i) ==
    IF line[i] = "type" /\ WordStart(line, i) THEN GoTypeName(line, WordAfter(line, i))
    ELSE NoMatch

\* /\bclass\s+(\w+)/g and /\binterface\s+(\w+)/g
ClassAt(line, i, kw) ==
    IF line[i] = kw /\ WordStart(line, i) THEN NameAt(line, WordAfter(line, i)) ELSE NoMatch

\* The violations of one pattern on one line: line N, KIND "name" is not STYLE.
Violations(names, kind, style, lineNumber) ==
    Map(SelectSeq(names, LAMBDA name : ~isValidNaming(name, style)),
        LAMBDA name : Msg(kind, lineNumber, <<name>>, << <<style>> >>))

MatchAll(line, At(_, _)) == Leftmost([i \in 1..Len(line) |-> At(line, i)], 1)

checkVariableNaming(line, rules, lineNumber) ==
    Violations(   MatchAll(line, VarDeclAt)
               \o MatchAll(line, AssignAt)
               \o MatchAll(line, TypedDeclAt),
               "variable", rules.variable, lineNumber)

JavaTypes == {"void", "int", "string", "bool"}

functionKeywords == <<{"func"}, {"function"}, {"def"}, JavaTypes>>

checkFunctionNaming(line, rules, lineNumber) ==
    Violations(   Flatten([p \in 1..Len(functionKeywords) |->
                      MatchAll(line, LAMBDA l, i : FuncAt(l, i, functionKeywords[p]))])
               \o MatchAll(line, ArrowAt),
               "function", rules.function, lineNumber)

classKeywords == <<"class", "interface">>

checkClassNaming(line, rules, lineNumber) ==
    Violations(   MatchAll(line, GoTypeAt)
               \o Flatten([p \in 1..Len(classKeywords) |->
                      MatchAll(line, LAMBDA l, i : ClassAt(l, i, classKeywords[p]))]),
               "class", rules.class, lineNumber)

Lines(code) == SplitOn(code, {"\n"}, <<>>)

\* lines.forEach((line, index) => ...) with lineNumber = index + 1
lineViolations(lines, namingRules) ==
    Flatten([n \in 1..Len(lines) |->
               checkVariableNaming(lines[n], namingRules, n)
            \o checkFunctionNaming(lines[n], namingRules, n)
            \o checkClassNaming(lines[n], namingRules, n)])

checkNamingViolations(code, style, language) ==
    lineViolations(Lines(code), getNamingRulesForLanguage(language, style))

(***************************************************************************)
(* The checks of CodeValidator.  A document is the code text, the file     *)
(* path, the language id and whether a workspace folder is open.           *)
(***************************************************************************)
\* filePath.split('/').slice(0, -1).join('/')
FileDirOf(p) == IF LastSlash(p) = 0 THEN <<>> ELSE SubSeq(p, 1, LastSlash(p) - 1)

\* memory.content.match(/U+76EE U+5F55 U+7ED3 U+6784[U+FF1A:]\s*(.+)/)
StructureAt(t, i) ==
    IF i + 2 <= Len(t) /\ SubSeq(t, i, i + 1) = <<"[mulu]", "[jiegou]">> /\ t[i + 2] \in Colons
    THEN RestOfLine(t, i + 3) ELSE NoMatch
structureMatch(content) == FirstMatch([i \in 1..Len(content) |-> StructureAt(content, i)])

isInExpectedDir(fileDir, expectedDirs) ==
    \E d \in 1..Len(expectedDirs) : Includes(fileDir, expectedDirs[d])

expectedDirIssues(memory, fileDir, expectedDirs) ==
    IF ~isInExpectedDir(fileDir, expectedDirs) /\ Len(expectedDirs) > 0
    THEN <<Issue("warning", Msg("path-not-in-expected-dirs", 0, <<>>, expectedDirs),
                 memory)>>
    ELSE <<>>

structureIssues(memory, filePath, match) ==
    IF match.ok
    THEN expectedDirIssues(memory, FileDirOf(filePath),
                           TrimAll(SplitOn(match.text, {","}, <<>>)))
    ELSE <<>>

directoryIssues(memory, filePath) ==
    IF \/ Includes(memory.content, <<"[mulu]", "[jiegou]">>)
       \/ Includes(memory.content, <<"[mulu]">>)
    THEN structureIssues(memory, filePath, structureMatch(memory.content))
    ELSE <<>>

forbiddenPatternIssues(memory, code) ==
    IF Includes(memory.content, Jinzhi) \/ Includes(memory.content, Buyunxu)
    THEN Map(SelectSeq(extractForbiddenPatterns(memory.content),
                       LAMBDA pattern : Includes(code, pattern)),
             LAMBDA pattern :
                 Issue("error", Msg("architecture-constraint", 0, pattern, <<>>), memory))
    ELSE <<>>

validateArchitecture(code, filePath, ms) ==
    IssuesOver(SelectSeq(ms, LAMBDA m : m.category = "architecture" /\ IsCritical(m)),
               LAMBDA memory : directoryIssues(memory, filePath)
                               \o forbiddenPatternIssues(memory, code))

NoStyle == [found |-> FALSE, style |-> "", importance |-> ""]
Style(style, importance) == [found |-> TRUE, style |-> style, importance |-> importance]

extractNamingStyle(content) ==
    IF Includes(content, <<"[tuofeng]">>) \/ Includes(content, <<"camelCase">>)
    THEN Style("camelCase", "high")
    ELSE IF Includes(content, <<"[shexing]">>) \/ Includes(content, <<"snake_case">>)
    THEN Style("snake_case", "high")
    ELSE IF Includes(content, <<"[pasika]">>) \/ Includes(content, <<"PascalCase">>)
    THEN Style("PascalCase", "high")
    ELSE NoStyle

getDefaultNamingStyle(language) ==
    CASE language \in {"go", "java", "javascript", "typescript", "csharp"} ->
             Style("camelCase", "medium")
      [] language = "python" -> Style("snake_case", "medium")
      [] OTHER -> NoStyle

HasTag(m, tag) == \E i \in 1..Len(m.tags) : m.tags[i] = tag

\* namingMemories, with the code-style records that mention naming pushed to
\* it when it is empty
orStyleMemories(named, ms) ==
    IF named # <<>> THEN named
    ELSE SelectSeq(ms, LAMBDA m : m.category = "code_style"
                                  /\ Includes(m.content, <<"[mingming]">>))

namingMemories(ms) ==
    orStyleMemories(SelectSeq(ms, LAMBDA m :
                        /\ \/ m.category = "code_style"
                           \/ HasTag(m, <<"naming">>)
                           \/ Includes(m.content, <<"[mingming]">>)
                        /\ m.importance \in {"critical", "high"}),
                    ms)

\* The two loops "for (const violation of violations) issues.push(...)" of
\* validateNaming: a record whose style is critical gives errors, every other
\* style, the default style of the language included, gives warnings.
namingIssues(namingStyle, memory, code, language) ==
    IF namingStyle.found
    THEN Map(checkNamingViolations(code, namingStyle.style, language),
             LAMBDA violation :
                 Issue(IF namingStyle.importance = "critical" THEN "error" ELSE "warning",
                       violation, memory))
    ELSE <<>>

\* The styles validateNaming checks and the record each comes from: the default
\* style of the language, from no record, when there is no naming record.
namingStyles(named, language) ==
    IF named = <<>>
    THEN <<[style |-> getDefaultNamingStyle(language), memory |-> NoMemory]>>
    ELSE Map(named, LAMBDA memory :
                 [style |-> extractNamingStyle(memory.content),
                  memory |-> [id |-> memory.id, content |-> memory.content]])

validateNaming(code, language, ms) ==
    IssuesOver(namingStyles(namingMemories(ms), language),
               LAMBDA entry : namingIssues(entry.style, entry.memory, code, language))

CommentFreeLimit == 100
FunctionLineLimit == 50

HasLexeme(line, S) == \E k \in 1..Len(line) : line[k] \in S
CountLexeme(line, a) == Len(SelectSeq(line, LAMBDA b : b = a))

\* The loop of countFunctionLines from line i; functionStart is 0 before the
\* first function line.
RECURSIVE countLoop(_, _, _, _)
countLoop(lines, i, functionStart, braceCount) ==
    IF i > Len(lines) THEN Len(lines)
    ELSE LET opens == HasLexeme(lines[i], {"function", "def", "fn"})
             start == IF opens THEN i ELSE functionStart
             base == IF opens THEN 0 ELSE braceCount
             count == IF start > 0
                      THEN base + CountLexeme(lines[i], "{") - CountLexeme(lines[i], "}")
                      ELSE base
         IN  IF start > 0 /\ count = 0 /\ i > start THEN i - start + 1
             ELSE countLoop(lines, i + 1, start, count)

countFunctionLines(code) == countLoop(Lines(code), 1, 0, 0)

functionLengthIssues(memory, functionLines) ==
    IF functionLines > FunctionLineLimit
    THEN <<Issue("warning", Msg("function-too-long", functionLines, <<>>, <<>>), memory)>>
    ELSE <<>>

styleIssues(memory, code) ==
       (IF /\ Includes(memory.content, <<"[zhushi]">>)
           /\ ~(Includes(code, <<"//">>) \/ Includes(code, <<"/*">>) \/ Includes(code, <<"#">>))
           /\ CharLen(code) > CommentFreeLimit
        THEN <<Issue("info", Msg("add-comments", 0, <<>>, <<>>), memory)>>
        ELSE <<>>)
    \o (IF \/ Includes(memory.content, <<"[hanshu]", "[changdu]">>)
           \/ Includes(memory.content, <<"[daima]", "[changdu]">>)
        THEN functionLengthIssues(memory, countFunctionLines(code))
        ELSE <<>>)

validateCodeStyle(code, ms) ==
    IssuesOver(SelectSeq(ms, LAMBDA m : m.category = "code_style" /\ m.importance = "high"),
               LAMBDA memory : styleIssues(memory, code))

(***************************************************************************)
(* Business rules (CodeValidator.validateBusinessRules and below) and      *)
(* constraint records (validateConstraints).                               *)
(***************************************************************************)
KeywordMinLength == 2
KeywordCap == 5
stopWords == {<<"[de]">>, <<"[he]">>, <<"[huo]">>, <<"[shi4]">>, <<"[zai]">>, <<"[you]">>}

\* CodeValidator.extractKeywords
extractKeywords(content) ==
    Slice(SelectSeq(SplitOn(content, {"[,]", "[.]", " ", "\n", "\t"}, <<>>),
                    LAMBDA word : CharLen(word) > KeywordMinLength /\ word \notin stopWords),
          0, KeywordCap)

Constraint(type, patterns, condition, requirement) ==
    [type |-> type, patterns |-> patterns, condition |-> condition,
     requirement |-> requirement]

\* One "forbidden" or "required" constraint for each match whose items, split
\* on list separators, are not all empty.
listConstraints(rule, kw, type) ==
    Map(SelectSeq(Map(KeywordRuns(rule, kw, ClauseStops),
                      LAMBDA run : SplitItems(Trim(run), ItemSeps)),
                  NonEmpty),
        LAMBDA patterns : Constraint(type, patterns, <<>>, <<>>))

\* /OPEN[^U+FF0C U+3002]+MID\s*([^U+3002 U+FF0C U+FF1B]+)/ at index i, where MID
\* is a fixed sequence of lexeme sets that ends with the colon: the longest
\* first part that still lets the rest match.
GuardedIn(t, i, open, J, n) ==
    IF t[i] = open /\ J # {}
    THEN RunMatch(t, i, RunEnd(t, LastIn(J) + n, ClauseStops)) ELSE NoMatch
GuardedAt(t, i, open, Mid) ==
    GuardedIn(t, i, open,
              {j \in (i + 2)..(Len(t) - Len(Mid)) :
                  /\ \A h \in 1..Len(Mid) : t[j + h - 1] \in Mid[h]
                  /\ t[j + Len(Mid)] \notin ClauseStops
                  /\ \A q \in (i + 1)..(j - 1) : t[q] \notin CommaStops},
              Len(Mid))

GuardedMatches(t, open, Mid) ==
    Leftmost(Map(Indices(t), LAMBDA i : GuardedAt(t, i, open, Mid)), 1)

\* match.match(/OPEN([^CLOSE]+)CLOSE/): the text between the first OPEN that
\* something other than CLOSE follows and the next CLOSE.
Enclosed(m, a, b) == Match(b, SubSeq(m, a + 1, b - 1))
BetweenIn(m, A, close) ==
    IF A = {} THEN NoMatch
    ELSE Enclosed(m, FirstIn(A), FirstIn({b \in (FirstIn(A) + 2)..Len(m) : m[b] = close}))
Between(m, open, close) ==
    BetweenIn(m, {a \in 1..(Len(m) - 2) :
                     /\ m[a] = open /\ m[a + 1] # close
                     /\ \E b \in (a + 2)..Len(m) : m[b] = close},
              close)

\* match.match(/KW[U+FF1A:]\s*(.+)/)
AfterKeyword(m, kw) ==
    FirstMatch(Map(Indices(m), LAMBDA b :
        IF b + 1 <= Len(m) /\ m[b] = kw /\ m[b + 1] \in Colons
        THEN RestOfLine(m, b + 2) ELSE NoMatch))

\* if (condition && requirement.length > 0) constraints.push(...)
conditionalOf(condition, requirement) ==
    IF condition # <<>> /\ requirement # <<>>
    THEN <<Constraint("conditional", <<>>, condition, requirement)>> ELSE <<>>

\* if (conditionMatch && requirementMatch)
conditionalIn(conditionMatch, requirementMatch) ==
    IF conditionMatch.ok /\ requirementMatch.ok
    THEN conditionalOf(Trim(conditionMatch.text),
                       SplitItems(requirementMatch.text, ItemSeps))
    ELSE <<>>

conditionalConstraints(rule, open, close, Mid, kw) ==
    IssuesOver(GuardedMatches(rule, open, Mid),
               LAMBDA m : conditionalIn(Between(m, open, close), AfterKeyword(m, kw)))

\* CodeValidator.extractBusinessConstraints
extractBusinessConstraints(rule) ==
       listConstraints(rule, Jinzhi, "forbidden")
    \o listConstraints(rule, Bixu, "required")
    \o conditionalConstraints(rule, "[ruguo]", "[ze]", <<{"[ze]"}, Colons>>, "[ze]")
    \o conditionalConstraints(rule, "[dang]", "[shi]",
                              <<{"[shi]"}, {"[,]", ","}, {"[bixu]"}, Colons>>, "[bixu]")

CodeHas(code, pattern) == Includes(LowerText(code), LowerText(pattern))
CodeHasAny(code, patterns) == \E i \in 1..Len(patterns) : CodeHas(code, patterns[i])

constraintViolations(code, c) ==
    CASE c.type = "forbidden" ->
             Map(SelectSeq(c.patterns, LAMBDA pattern : CodeHas(code, pattern)),
                 LAMBDA pattern : Msg("rule-forbids", 0, pattern, <<>>))
      [] c.type = "required" ->
             IF ~CodeHasAny(code, c.patterns) /\ Len(c.patterns) > 0
             THEN <<Msg("rule-requires", 0, <<>>, c.patterns)>> ELSE <<>>
      [] OTHER ->
             IF /\ c.condition # <<>> /\ Len(c.requirement) > 0
                /\ CodeHas(code, c.condition)
                /\ ~CodeHasAny(code, c.requirement)
             THEN <<Msg("rule-requires-when", 0, c.condition, c.requirement)>> ELSE <<>>

\* CodeValidator.checkBusinessRuleViolations
checkBusinessRuleViolations(code, rule) ==
    IssuesOver(extractBusinessConstraints(rule),
               LAMBDA constraint : constraintViolations(code, constraint))

\* The violations of a rule whatever the code is about
businessIssuesUngated(memory, code) ==
    Map(checkBusinessRuleViolations(code, memory.content),
        LAMBDA violation : Issue("error", violation, memory))
businessIssues(memory, code) ==
    IF CodeHasAny(code, extractKeywords(memory.content))
    THEN Map(checkBusinessRuleViolations(code, memory.content),
             LAMBDA violation : Issue("error", violation, memory))
    ELSE <<>>

validateBusinessRules(code, ms) ==
    IssuesOver(SelectSeq(ms, LAMBDA m : m.category = "business_rule" /\ IsCritical(m)),
               LAMBDA memory : businessIssues(memory, code))

constraintIssues(memory, code) ==
       (IF Includes(memory.content, Jinzhi) \/ Includes(memory.content, Buyunxu)
        THEN Map(SelectSeq(extractForbiddenItems(memory.content),
                           LAMBDA item : Includes(code, item)),
                 LAMBDA item : Issue("error", Msg("forbidden-item", 0, item, <<>>), memory))
        ELSE <<>>)
    \o (IF Includes(memory.content, Bixu) \/ Includes(memory.content, Yaoqiu)
        THEN Map(SelectSeq(extractRequiredItems(memory.content),
                           LAMBDA item : ~Includes(code, item)),
                 LAMBDA item : Issue("warning", Msg("required-item", 0, item, <<>>), memory))
        ELSE <<>>)

validateConstraints(code, ms) ==
    IssuesOver(SelectSeq(ms, LAMBDA m : m.category = "constraint" /\ IsCritical(m)),
               LAMBDA memory : constraintIssues(memory, code))

(***************************************************************************)
(* ArchitectureChecker (architectureChecker.ts).                           *)
(***************************************************************************)
updateInterval == 10000

archTags == {<<"architecture">>, <<"arch">>, <<"structure">>, <<"module">>, <<"layer">>}

\* The filter of ArchitectureChecker.loadArchitectureMemories
loadArchitectureMemories(allMemories) ==
    SelectSeq(allMemories, LAMBDA m :
        \/ m.category = "architecture"
        \/ m.category = "constraint" /\ IsCritical(m)
        \/ \E i \in 1..Len(m.tags) : LowerText(m.tags[i]) \in archTags)

Sentences(content) == SplitOn(content, {"[.]", "[!]", "[?]", "\n"}, <<>>)
ClauseEnds == {"[.]", "[,]", ","}

\* sentence.match(new RegExp(`${keyword}[U+FF1A:](.+?)(?:[U+3002 U+FF0C,]|$)`, 'i')),
\* its group trimmed
ClauseTo(sentence, i, e) == Match(e, Trim(SubSeq(sentence, i, e)))
KeywordClause(sentence, keyword) ==
    FirstMatch(Map(Indices(sentence), LAMBDA i :
        IF i + 2 <= Len(sentence) /\ Lower(sentence[i]) = keyword
           /\ sentence[i + 1] \in Colons
        THEN ClauseTo(sentence, i + 2, RunEnd(sentence, i + 3, ClauseEnds))
        ELSE NoMatch))

\* The loop the extract* methods of the checker share: every sentence, every
\* keyword, the group of the first match pushed, empty or not.
GroupOf(match) == IF match.ok THEN <<match.text>> ELSE <<>>
clauseOf(sentence, lowered, keyword, Guard(_)) ==
    IF Includes(lowered, <<keyword>>) /\ Guard(lowered)
    THEN GroupOf(KeywordClause(sentence, keyword)) ELSE <<>>
extractClauses(content, keywords, Guard(_)) ==
    IssuesOver(Sentences(content), LAMBDA sentence :
        IssuesOver(keywords, LAMBDA keyword :
            clauseOf(sentence, LowerText(sentence), keyword, Guard)))

Always(sentence) == TRUE
HasAny(t, Words) == \E i \in 1..Len(t) : t[i] \in Words

archForbiddenPatterns(content) ==
    extractClauses(content, <<"[jinzhi]", "[buyunxu]", "[buneng]", "forbidden",
                              "not allowed", "cannot">>, Always)
extractRequiredPatterns(content) ==
    extractClauses(content, <<"[bixu]", "[yinggai]", "must", "should">>, Always)
extractDirectoryRequirements(content) ==
    extractClauses(content, <<"[mulu]", "[wenjianjia]", "directory", "folder">>, Always)
extractModulePatterns(content) ==
    extractClauses(content, <<"[mokuai]", "module">>, Always)
extractForbiddenDependencies(content) ==
    extractClauses(content, <<"[jinzhi]", "[buyunxu]", "forbidden", "not allowed">>,
                   LAMBDA sentence : HasAny(sentence, {"[yilai]", "import"}))

ArchIssue(type, kind, memory) == Issue(type, Msg(kind, 0, memory.content, <<>>), memory)

\* One issue for each element of a list that passes a test
IssuePerHit(hits, Test(_), type, kind, memory) ==
    [i \in 1..Len(SelectSeq(hits, Test)) |-> ArchIssue(type, kind, memory)]

constraintIssuesIn(memory, content, code) ==
       (IF HasAny(content, {"[jinzhi]", "[buyunxu]", "forbidden", "not allowed"})
        THEN IssuePerHit(archForbiddenPatterns(memory.content),
                         LAMBDA pattern : CodeHas(code, pattern),
                         "error", "architecture-violated", memory)
        ELSE <<>>)
    \o (IF HasAny(content, {"[bixu]", "[yinggai]", "must", "should"})
        THEN IssuePerHit(extractRequiredPatterns(memory.content),
                         LAMBDA pattern : ~CodeHas(code, pattern),
                         "warning", "architecture-advised", memory)
        ELSE <<>>)
constraintIssuesOf(memory, code) ==
    constraintIssuesIn(memory, LowerText(memory.content), code)

checkArchitectureConstraints(code, architectureMemories) ==
    IssuesOver(SelectSeq(architectureMemories, IsCritical),
               LAMBDA memory : constraintIssuesOf(memory, code))

WorkspaceRoot == <<"/", "ws", "/">>

\* path.relative(workspaceFolder.uri.fsPath, filePath) for a file of the folder
RelativePath(p) ==
    IF Len(p) >= Len(WorkspaceRoot) /\ SubSeq(p, 1, Len(WorkspaceRoot)) = WorkspaceRoot
    THEN SubSeq(p, Len(WorkspaceRoot) + 1, Len(p)) ELSE p

shouldBeInDirectory(fileName, code, dir) ==
    \E layer \in {"controller", "service", "model"} :
        /\ CodeHas(dir, <<layer>>)
        /\ CodeHas(fileName, <<layer>>) \/ CodeHas(code, <<layer>>)

moduleIssuesIn(memory, content, code, filePath) ==
       (IF HasAny(content, {"[mulu]", "[wenjianjia]", "directory", "folder"})
        THEN IssuePerHit(extractDirectoryRequirements(memory.content),
                         LAMBDA dir : /\ ~CodeHas(RelativePath(filePath), dir)
                                      /\ shouldBeInDirectory(Basename(filePath), code, dir),
                         "warning", "file-location", memory)
        ELSE <<>>)
    \o (IF HasAny(content, {"[mokuai]", "module"})
        THEN IssuePerHit(extractModulePatterns(memory.content),
                         LAMBDA pattern : /\ ~CodeHas(Basename(filePath), pattern)
                                          /\ ~CodeHas(code, pattern),
                         "info", "module-naming", memory)
        ELSE <<>>)
moduleIssuesOf(memory, code, filePath) ==
    moduleIssuesIn(memory, LowerText(memory.content), code, filePath)

checkModuleDivision(doc, architectureMemories) ==
    IF ~doc.workspace THEN <<>>
    ELSE IssuesOver(SelectSeq(architectureMemories, LAMBDA m : m.category = "architecture"),
                    LAMBDA memory : moduleIssuesOf(memory, doc.code, doc.filePath))

Quotes == {"\"", "'"}

\* ["'](...)["'] from index q: the closing quote and the text between.
QuotedAt(t, q, Q) ==
    LET e == RunEnd(t, q + 1, Q) IN
    IF q <= Len(t) /\ t[q] \in Q /\ e > q /\ e + 1 <= Len(t)
    THEN Match(e + 1, SubSeq(t, q + 1, e)) ELSE NoMatch

\* /import\s+(?:"([^"]+)"|\(([^)]+)\))/g at index i.  The package is read from
\* the match again: its first quoted text if it has one, else what the
\* parentheses hold.
GoImportAt(t, i) ==
    LET k == SkipWs(t, i + 1)
        e == RunEnd(t, k + 1, {")"})
        inner == SubSeq(t, k + 1, e)
        quoted == FirstMatch([q \in 1..Len(inner) |->
                                  QuotedAt(inner, q, {"\""})])
    IN  IF t[i] = "import" /\ k > i + 1 /\ k <= Len(t)
        THEN IF QuotedAt(t, k, {"\""}).ok THEN QuotedAt(t, k, {"\""})
             ELSE IF t[k] = "(" /\ e > k /\ e + 1 <= Len(t)
             THEN Match(e + 1, IF quoted.ok THEN quoted.text ELSE inner)
             ELSE NoMatch
        ELSE NoMatch

\* from\s+["']([^"']+)["'] at index j
FromAt(t, j) ==
    IF t[j] = "from" /\ j + 1 <= Len(t) /\ IsWs(t[j + 1])
    THEN QuotedAt(t, SkipWs(t, j + 1), Quotes) ELSE NoMatch

\* /(?:import|require)\s+.*from\s+["']([^"']+)["']|require\(["']([^"']+)["']\)/g
\* at index i: ".*" stays on one line and is as long as it can be; the package
\* is read from the match again, after its first "from".
JsImportAt(t, i) ==
    LET w == SkipWs(t, i + 1)
        J == {j \in w..Len(t) : /\ FromAt(t, j).ok
                                /\ \A q \in w..(j - 1) : t[q] # "\n"}
        lastFrom == CHOOSE j \in J : \A x \in J : x <= j
        firstFrom == CHOOSE j \in J : \A x \in J : j <= x
        call == IF i + 1 <= Len(t) /\ t[i + 1] = "(" THEN QuotedAt(t, i + 2, Quotes)
                ELSE NoMatch
    IN  IF t[i] \in {"import", "require"} /\ w > i + 1 /\ J # {}
        THEN Match(FromAt(t, lastFrom).end, FromAt(t, firstFrom).text)
        ELSE IF t[i] = "require" /\ call.ok /\ call.end + 1 <= Len(t) /\ t[call.end + 1] = ")"
        THEN Match(call.end + 1, call.text)
        ELSE NoMatch

\* pkg.split(/\s+/)[0]
FirstPiece(pkg) == IF pkg = <<>> THEN <<>> ELSE SubSeq(pkg, 1, RunEnd(pkg, 1, {" ", "\n", "\t"}))

\* ArchitectureChecker.extractDependencies: the "to" of every dependency
extractDependencies(code, language) ==
    CASE language = "go" ->
             LET pkgs == Leftmost([i \in 1..Len(code) |-> GoImportAt(code, i)], 1)
             IN  [i \in 1..Len(pkgs) |-> FirstPiece(pkgs[i])]
      [] language \in {"javascript", "typescript"} ->
             Leftmost([i \in 1..Len(code) |-> JsImportAt(code, i)], 1)
      [] OTHER -> <<>>

\* ArchitectureChecker.extractLayerRules
extractLayerRules(content) ==
    IF /\ CodeHas(content, <<"controller">>) /\ CodeHas(content, <<"model">>)
       /\ CodeHas(content, <<"[buneng]">>) \/ CodeHas(content, Jinzhi)
    THEN <<[from |-> "controller", to |-> "model", allowed |-> FALSE]>>
    ELSE <<>>

\* ArchitectureChecker.checkLayerRuleViolation: is there a violation to report
checkLayerRuleViolation(dependencies, rule, filePath) ==
    /\ CodeHas(Basename(filePath), <<rule.from>>)
    /\ \E d \in 1..Len(dependencies) : CodeHas(dependencies[d], <<rule.to>>) /\ ~rule.allowed

Pairs(xs, ys) == Flatten([i \in 1..Len(xs) |-> [j \in 1..Len(ys) |-> <<xs[i], ys[j]>>]])

dependencyIssuesOf(memory, dependencies, filePath) ==
    LET content == LowerText(memory.content) IN
       (IF HasAny(content, {"[jinzhi]"}) /\ HasAny(content, {"[yilai]", "import", "dependency"})
        THEN IssuePerHit(Pairs(dependencies, extractForbiddenDependencies(memory.content)),
                         LAMBDA pair : CodeHas(pair[1], pair[2]),
                         "error", "dependency-violated", memory)
        ELSE <<>>)
    \o (IF HasAny(content, {"[ceng]", "layer"})
        THEN IssuePerHit(extractLayerRules(memory.content),
                         LAMBDA rule : checkLayerRuleViolation(dependencies, rule, filePath),
                         "error", "layer-violated", memory)
        ELSE <<>>)

checkDependencies(doc, architectureMemories) ==
    IssuesOver(SelectSeq(architectureMemories, LAMBDA m : m.category = "architecture"),
               LAMBDA memory : dependencyIssuesOf(
                   memory, extractDependencies(doc.code, doc.language), doc.filePath))

\* ArchitectureChecker.extractNamingRules
extractNamingRules(content) ==
       (IF CodeHas(content, <<"camelcase">>) \/ CodeHas(content, <<"[tuofeng]">>)
        THEN <<"camelCase">> ELSE <<>>)
    \o (IF CodeHas(content, <<"pascalcase">>) \/ CodeHas(content, <<"[pasika]">>)
        THEN <<"PascalCase">> ELSE <<>>)
    \o (IF CodeHas(content, <<"snake_case">>) \/ CodeHas(content, <<"[xiahuaxian]">>)
        THEN <<"snake_case">> ELSE <<>>)

\* (?:func|function)\s+(NAME)\s*\( without the word boundary, and the others of
\* extractIdentifiers
PlainFuncAt(t, i, kw, needParen) ==
    LET j == WordAfter(t, i)
        k == SkipWs(t, j + 1)
    IN  IF t[i] = kw /\ j > 0 /\ (~needParen \/ (k <= Len(t) /\ t[k] = "("))
        THEN Match(IF needParen THEN k ELSE j, t[j]) ELSE NoMatch

UpperTypeAt(t, i, kw, needSpace) ==
    LET j == WordAfter(t, i) IN
    IF t[i] = kw /\ j > 0 /\ Shape(t[j])[1] = "U"
       /\ (~needSpace \/ (j + 1 <= Len(t) /\ IsWs(t[j + 1])))
    THEN Match(IF needSpace THEN SkipWs(t, j + 1) - 1 ELSE j, t[j]) ELSE NoMatch

JsIdentifierAt(t, i) ==
    IF PlainFuncAt(t, i, "function", FALSE).ok THEN PlainFuncAt(t, i, "function", FALSE)
    ELSE IF ArrowAt(t, i).ok THEN ArrowAt(t, i)
    ELSE UpperTypeAt(t, i, "class", FALSE)

\* ArchitectureChecker.extractIdentifiers
extractIdentifiers(code, language) ==
    CASE language = "go" ->
                Leftmost([i \in 1..Len(code) |-> PlainFuncAt(code, i, "func", TRUE)], 1)
             \o Leftmost([i \in 1..Len(code) |-> UpperTypeAt(code, i, "type", TRUE)], 1)
      [] language \in {"javascript", "typescript"} ->
             Leftmost([i \in 1..Len(code) |-> JsIdentifierAt(code, i)], 1)
      [] OTHER -> <<>>

\* ArchitectureChecker.matchesNamingRule
matchesNamingRule(identifier, rule) ==
    CASE rule = "camelCase" -> ShapeIs(Shape(identifier), {"l"}, {"l", "U", "d"})
      [] rule = "PascalCase" -> ShapeIs(Shape(identifier), {"U"}, {"l", "U", "d"})
      [] rule = "snake_case" -> ShapeIs(Shape(identifier), {"l"}, {"l", "d", "_"})
      [] OTHER -> TRUE

archNamingIssuesOf(memory, code, language) ==
    IF HasAny(LowerText(memory.content), {"[mingming]", "naming"})
    THEN IssuePerHit(Pairs(extractIdentifiers(code, language),
                           extractNamingRules(memory.content)),
                     LAMBDA pair : ~matchesNamingRule(pair[1], pair[2]),
                     "warning", "architecture-naming", memory)
    ELSE <<>>

checkArchitectureNaming(doc, architectureMemories) ==
    IssuesOver(SelectSeq(architectureMemories,
                         LAMBDA m : m.category \in {"architecture", "code_style"}),
               LAMBDA memory : archNamingIssuesOf(memory, doc.code, doc.language))

\* The issues of ArchitectureChecker.checkArchitecture on the loaded records
checkArchitecture(doc, architectureMemories) ==
       checkArchitectureConstraints(doc.code, architectureMemories)
    \o checkModuleDivision(doc, architectureMemories)
    \o checkDependencies(doc, architectureMemories)
    \o checkArchitectureNaming(doc, architectureMemories)

(***************************************************************************)
(* CodeValidator.validateCode: the checks in order, then the verdict and   *)
(* the summary.  The summary is its verdict and the counts it prints.      *)
(***************************************************************************)
CountType(issues, type) == Len(SelectSeq(issues, LAMBDA issue : issue.type = type))
Shown(type, count) == [type |-> type, count |-> count]

passedAlways(errorCount) == TRUE

\* const passed = errorCount === 0
passed(errorCount) == errorCount = 0

summaryOf(issues) ==
    LET errorCount == CountType(issues, "error")
        warningCount == CountType(issues, "warning")
        infoCount == CountType(issues, "info")
    IN  IF passed(errorCount) /\ Len(issues) = 0
        THEN [verdict |-> "passed", counts |-> <<>>]
        ELSE IF passed(errorCount)
        THEN [verdict |-> "passed",
              counts |-> <<Shown("warning", warningCount), Shown("info", infoCount)>>]
        ELSE [verdict |-> "failed",
              counts |-> <<Shown("error", errorCount), Shown("warning", warningCount),
                           Shown("info", infoCount)>>]

\* ms is this.memories; hasChecker tells whether a storage was passed to the
\* constructor; architectureMemories is what the checker has loaded when its
\* checks run.
validateCode(doc, ms, hasChecker, architectureMemories) ==
    LET issues ==
               validateArchitecture(doc.code, doc.filePath, ms)
            \o (IF hasChecker THEN checkArchitecture(doc, architectureMemories) ELSE <<>>)
            \o validateNaming(doc.code, doc.language, ms)
            \o validateCodeStyle(doc.code, ms)
            \o validateBusinessRules(doc.code, ms)
            \o validateConstraints(doc.code, ms)
    IN  [passed |-> passed(CountType(issues, "error")),
         issues |-> issues,
         summary |-> summaryOf(issues)]

(***************************************************************************)
(* The validator object: a CodeValidator and, if a storage was passed to   *)
(* its constructor, its ArchitectureChecker.                               *)
(***************************************************************************)
NoValidator == [made |-> FALSE, memories |-> <<>>, checker |-> FALSE,
                architectureMemories |-> <<>>, lastUpdateTime |-> 0]

\* new CodeValidator(memories, storage?).  The constructor of the checker
\* starts loadArchitectureMemories without awaiting it: the store is read at
\* once (loadMemories reads the file synchronously) and the rest of the load
\* runs before any other event is served.
newCodeValidator(ms, hasStorage, store, time) ==
    [made |-> TRUE, memories |-> ms, checker |-> hasStorage,
     architectureMemories |-> IF hasStorage THEN loadArchitectureMemories(store) ELSE <<>>,
     lastUpdateTime |-> IF hasStorage THEN time ELSE 0]

\* if (Date.now() - this.lastUpdateTime > this.updateInterval)
mustReload(v, time) == v.checker /\ time - v.lastUpdateTime > updateInterval

\* The checker after the start of checkArchitecture at the given time.
reloaded(v, store, time) ==
    IF mustReload(v, time)
    THEN [v EXCEPT !.architectureMemories = loadArchitectureMemories(store),
                   !.lastUpdateTime = time]
    ELSE v

\* The clock starts later than updateInterval after the epoch and advances in
\* steps of a little over half of updateInterval.
StartTime == 2 * updateInterval
TickStep == updateInterval \div 2 + 1

NoResult == [passed |-> TRUE, issues |-> <<>>, summary |-> [verdict |-> "", counts |-> <<>>]]
NoDoc == [code |-> <<>>, filePath |-> <<>>, language |-> "", workspace |-> FALSE]
NoRun == [n |-> 0, doc |-> NoDoc, corpus |-> <<>>, result |-> NoResult]

(***************************************************************************)
(* Inputs of the Validator specifications.                                 *)
(***************************************************************************)
Doc(code, path, language, workspace) ==
    [code |-> code, filePath |-> WorkspaceRoot \o path, language |-> language,
     workspace |-> workspace]

PanicCode == <<"panic(", "err", ")">>
HandlerCode ==
    <<"import", " ", "\"", "model", "s", "/", "user", "\"", "\n",
      "func", " ", "get_user", "(", ")", " ", "{", "\n",
      " ", "eval", "(", "x", ")", "\n", "}">>
ScriptCode ==
    <<"const", " ", "UserName", " ", "=", " ", "x", "\n",
      "class", " ", "UserService", " ", "{", "}", "\n",
      "def", " ", "GetUser", "(", ")", ":">>
ShoutCode == <<"//", " ", "Panic(", "err", ")", "\n", "let", " ", "total", " ", "=", " ", "x">>
CleanCode == <<"return", " ", "nil">>

ValDocs ==
    { Doc(PanicCode, <<"src", "/", "main", ".go">>, "go", TRUE),
      Doc(HandlerCode, <<"handler", "/", "user", "_", "controller", ".go">>, "go", TRUE),
      Doc(ScriptCode, <<"tools", "/", "build", ".py">>, "python", FALSE),
      Doc(ShoutCode, <<"src", "/", "app", ".ts">>, "typescript", TRUE),
      Doc(CleanCode, <<"src", "/", "main", ".go">>, "go", TRUE) }

ForbidPanic == <<"[jinzhi]", ":", " ", "panic(">>
ForbidEval == <<"[jinzhi]", "[:]", "eval", "[.]", "[bixu]", ":", " ", "fmt">>

ValPool ==
    { Mem(0, ForbidPanic, "architecture", "critical", <<>>, <<>>),
      Mem(0, ForbidPanic, "architecture", "high", <<>>, <<>>),
      Mem(0, ForbidEval, "constraint", "critical", <<>>, <<>>),
      Mem(0, ForbidEval, "constraint", "high", <<>>, <<>>),
      Mem(0, <<"forbidden", ":", " ", "Panic(", ",", " ", "must", ":", "fmt">>,
          "architecture", "critical", <<>>, <<>>),
      Mem(0, <<"eval", " ", "[jinzhi]", ":", "eval", "[dun]", "exec", "[.]",
               "[dang]", "user", "[shi]", "[,]", "[bixu]", ":", "auth">>,
          "business_rule", "critical", <<>>, <<>>),
      Mem(0, <<"[mingming]", " ", "snake_case", " ", "[zhushi]">>,
          "code_style", "critical", << <<"naming">> >>, <<>>),
      Mem(0, <<"[mingming]", "[guifan]", ":", " ", "PascalCase">>,
          "code_style", "high", <<>>, <<>>),
      Mem(0, <<"[mulu]", "[jiegou]", ":", " ", "src", ",", " ", "lib", "[.]",
               "[mokuai]", ":", "user", "[.]", "[mulu]", ":", "controller", "s">>,
          "architecture", "critical", <<>>, <<>>),
      Mem(0, <<"controller", " ", "[ceng]", " ", "[buneng]", " ", "[yilai]", " ",
               "model", "[.]", "[jinzhi]", ":", "model", "s", " ", "import">>,
          "architecture", "high", <<>>, <<>>),
      Mem(0, <<"old", " ", "notes">>, "other", "low", << <<"Arch">> >>, <<>>) }

\* The corpora of the Validator specification: every sequence of up to
\* MaxCorpus records of the pool, and three larger ones.
Numbered(ms) == [i \in 1..Len(ms) |-> WithId(ms[i], i)]

MixedCorpora ==
    { << Mem(0, ForbidPanic, "architecture", "critical", <<>>, <<>>),
         Mem(0, ForbidEval, "constraint", "critical", <<>>, <<>>),
         Mem(0, <<"[mingming]", "[guifan]", ":", " ", "PascalCase">>,
             "code_style", "high", <<>>, <<>>) >>,
      << Mem(0, ForbidPanic, "architecture", "high", <<>>, <<>>),
         Mem(0, <<"old", " ", "notes">>, "other", "low", << <<"Arch">> >>, <<>>) >> }

ValCorpora == {Numbered(ms) : ms \in SeqsUpTo(ValPool, MaxCorpus) \cup MixedCorpora}

\* The records the store gains in the specification of repeated validation.
AddPool ==
    { Mem(0, ForbidPanic, "architecture", "critical", <<>>, <<>>),
      Mem(0, <<"[mingming]", "[guifan]", ":", " ", "PascalCase">>,
          "code_style", "high", <<>>, <<>>) }

(***************************************************************************)
(* The editor glue (extension.ts, MemoryManager.verifyCode): documents,    *)
(* the debounce timer, and the diagnostic collections.  The issues of the  *)
(* Validator carry no line, so every diagnostic has the range (0,0,0,0).   *)
(***************************************************************************)
Uris == {"main.go", "app.ts", "notes.md"}

fileNameOf(uri) ==
    CASE uri = "main.go" -> WorkspaceRoot \o <<"src", "/", "main", ".go">>
      [] uri = "app.ts" -> WorkspaceRoot \o <<"src", "/", "app", ".ts">>
      [] OTHER -> WorkspaceRoot \o <<"notes", ".md">>

languageIdOf(uri) ==
    CASE uri = "main.go" -> "go" [] uri = "app.ts" -> "typescript" [] OTHER -> "markdown"

schemeOf(uri) == "file"

\* The texts a document goes through.
Versions(uri) ==
    CASE uri = "main.go" -> <<PanicCode, CleanCode>>
      [] uri = "app.ts" -> <<ShoutCode>>
      [] OTHER -> <<CleanCode>>

\* The TextDocument of a uri whose text is at the given version.
documentOf(uri, version) ==
    [code |-> Versions(uri)[version], filePath |-> fileNameOf(uri),
     language |-> languageIdOf(uri), workspace |-> TRUE]

skipExtensions == {".md", ".txt", ".json", ".yml", ".yaml", ".log"}

\* document.fileName.substring(document.fileName.lastIndexOf('.'))
extOf(fileName) == fileName[Len(fileName)]

skipped(uri) == schemeOf(uri) # "file" \/ extOf(fileNameOf(uri)) \in skipExtensions

severityOf(type) ==
    CASE type = "error" -> "Error" [] type = "warning" -> "Warning" [] OTHER -> "Information"

\* The diagnostic validateDocument makes of an issue
liveDiagnostic(issue) ==
    [severity |-> severityOf(issue.type), message |-> issue.message,
     source |-> IF issue.memoryContent # <<>> THEN "CodeMind" ELSE "", code |-> 0]

\* The diagnostic showValidationResult makes of an issue
manualDiagnostic(issue) ==
    [severity |-> severityOf(issue.type), message |-> issue.message,
     source |-> IF issue.memoryId # 0 THEN "Memory Manager" ELSE "",
     code |-> issue.memoryId]

\* result.issues.map(issue => diagnostic)
liveDiagnostics(issues) == [i \in 1..Len(issues) |-> liveDiagnostic(issues[i])]
manualDiagnostics(issues) == [i \in 1..Len(issues) |-> manualDiagnostic(issues[i])]

\* new CodeValidator(memories, storage) followed at once by validateCode
freshValidation(doc, store, time) ==
    LET validator == newCodeValidator(store, TRUE, store, time)
    IN  validateCode(doc, validator.memories, validator.checker,
                     reloaded(validator, store, time).architectureMemories)

NoTimer == [pending |-> FALSE, doc |-> ""]
NoneDone == [valid |-> FALSE, uri |-> "", diagnostics |-> <<>>]
Done(uri, diagnostics) == [valid |-> TRUE, uri |-> uri, diagnostics |-> diagnostics]

\* What the editor shows for a document: the entries of every collection.
shownFor(uri, collection, others) ==
    collection[uri]
    \o Flatten([i \in 1..Len(others) |->
                   IF others[i].uri = uri THEN others[i].diagnostics ELSE <<>>])

(***************************************************************************)
(* Inputs of the Selector specification.                                   *)
(***************************************************************************)
AuthPath == <<"src", "/", "auth", "/", "login", ".ts">>
UtilPath == <<"lib", "/", "util", ".go">>

SelFiles ==
    { [path |-> AuthPath, readable |-> TRUE,
       functions |-> << <<"check", "Login">> >>, classes |-> << <<"Auth", "Service">> >>,
       imports |-> << <<"express">> >>, keywords |-> << <<"auth">>, <<"session">> >>],
      [path |-> UtilPath, readable |-> FALSE,
       functions |-> <<>>, classes |-> <<>>, imports |-> <<>>, keywords |-> <<>>] }

PlainCritical ==
    Mem(0, <<"[jinzhi]", ":", "eval">>, "constraint", "critical", <<>>, <<>>)

SelPool ==
    { PlainCritical,
      Mem(0, <<"use", " ", "session", " ", "tokens">>, "architecture", "critical",
          <<>>, << <<"auth">> >>),
      Mem(0, <<"wrap", " ", "errors">>, "code_style", "high", << <<"auth">> >>, <<>>),
      Mem(0, <<"wrap", " ", "errors">>, "code_style", "high", << <<"billing">> >>, <<>>),
      Mem(0, <<"express", " ", "routers">>, "api_spec", "medium", << <<"login">> >>, <<>>),
      Mem(0, <<"check", "Login", " ", "in", " ", "Auth", "Service">>, "api_spec", "high",
          <<>>, <<>>),
      Mem(0, <<"notes">>, "other", "low", << <<"util">> >>, <<>>) }

\* A corpus: free records followed by n plain critical records, ids by position.
Corpus(prefix, n) ==
    LET all == prefix \o [i \in 1..n |-> PlainCritical]
    IN  [i \in 1..Len(all) |-> WithId(all[i], i)]

SelCorpora ==
    {Corpus(p, n) : p \in SeqsUpTo(SelPool, MaxPrefix),
                    n \in {0} \cup ((TotalCap - 2)..MaxFill)}

NoCall == [called |-> FALSE, file |-> NoFile, out |-> <<>>]

(***************************************************************************)
(* Inputs of the Compressor specification.                                 *)
(***************************************************************************)
Repeat(t, n) == [i \in 1..(n * Len(t)) |-> t[((i - 1) % Len(t)) + 1]]

\* 101 one-letter words: 201 characters, 101 tokens.
LongLatin == Repeat(<<"a", " ">>, 100) \o <<"b">>
\* 151 CJK characters with a filler word every third: 302 characters.
LongCjk == Repeat(<<"[zhong]", "[de]">>, 151)

ShortCritical == Mem(0, <<"no", " ", "eval">>, "constraint", "critical", <<>>, <<>>)

CmpPool ==
    { ShortCritical,
      Mem(0, <<"[zhong]", "[de]", "[zhong]">>, "architecture", "critical", <<>>, <<>>),
      Mem(0, LongLatin, "architecture", "critical", <<>>, <<>>),
      Mem(0, <<"wrap", " ", "\n", " ", "errors", " ">>, "code_style", "high", <<>>, <<>>),
      Mem(0, LongCjk, "documentation", "high", <<>>, <<>>),
      Mem(0, <<"prefer", " ", "const">>, "code_style", "medium", <<>>, <<>>),
      Mem(0, <<"old", " ", "notes">>, "other", "low", <<>>, <<>>) }

Selection(prefix, n) ==
    LET all == prefix \o [i \in 1..n |-> ShortCritical]
    IN  [i \in 1..Len(all) |-> WithId(all[i], i)]

CmpSelections ==
    {Selection(p, n) : p \in SeqsUpTo(CmpPool, MaxSel), n \in {0, MaxCmpFill}}

CmpBudgets == (0..MaxBudget) \cup {DefaultMaxTokens}

NoPrinted == [critical |-> <<>>, high |-> <<>>, medium |-> <<>>,
              hasCritical |-> FALSE, hasHigh |-> FALSE, hasMedium |-> FALSE]
NoCompress == [called |-> FALSE, memories |-> <<>>, maxTokens |-> 0,
               compressed |-> <<>>, printed |-> NoPrinted, context |-> <<>>]

ValidatorIdle == vld = NoValidator /\ now = StartTime /\ last = NoRun
EditorIdle ==
    /\ texts = [uri \in Uris |-> 1]
    /\ timer = NoTimer
    /\ opening = {}
    /\ diag = [uri \in Uris |-> <<>>]
    /\ manual = <<>>
    /\ done = NoneDone
    /\ awaiting = {}
InjectorIdle == sel = NoCall /\ cmp = NoCompress

\* No operation has run on the store yet.  missing holds the ids of the stored
\* records that were written without a tags field.
NoOutcome == [op |-> "none", threw |-> FALSE, file |-> NoFile, doc |-> NoDoc,
              checker |-> FALSE, out |-> <<>>]
FaultIdle == missing = {} /\ outcome = NoOutcome

\* The document of the active editor.  buffer[v] is its text at version v in
\* the editor: the number of injected blocks in it and whether it holds the
\* header marker.  seen is the version the extension's copy of it is at.
NoText == [blocks |-> 0, marked |-> FALSE]
\* The Cursor side: whether the workspace folder can be written, whether the
\* editor has one of the cursor.* commands, and whether memories were handed
\* to Cursor (.cursorrules, a command or a configuration file).  report is
\* the message the injectMemories command showed last.
NoRules == [writable |-> FALSE, commands |-> FALSE, injected |-> FALSE]
InjectionIdle ==
    /\ buffer = <<NoText>>
    /\ seen = 1
    /\ edits = <<>>
    /\ cursorRules = NoRules
    /\ report = "none"

\* The recognizer: knownPatterns is its map this.patterns, flattened; found
\* holds what the last recognizePatterns returned and the last check of a
\* snippet with the patterns that had been returned before it.
NoFound == [called |-> FALSE, recognized |-> <<>>, checked |-> FALSE, code |-> <<>>,
            language |-> "", established |-> <<>>, issues |-> <<>>]
RecognizerIdle == knownPatterns = <<>> /\ found = NoFound

\* The version manager: versions is the history, currentVersion the label
\* <<major, minor, patch>> of the current version; rolled holds the last
\* rollback: the entry that was picked, the entry of its backup, and the
\* store before and after it.
NoRollback == [called |-> FALSE, picked |-> 0, backup |-> 0, before |-> <<>>,
               after |-> <<>>]
HistoryIdle == versions = <<>> /\ currentVersion = <<1, 0, 0>> /\ rolled = NoRollback

\* The maintenance of the store, the calls of the store in flight and the
\* rules file: nothing was called, .cursorrules does not exist (its text is
\* empty).
NoUpkeep == [op |-> "none", time |-> 0, maxAge |-> 0, before |-> <<>>, after |-> <<>>,
             returned |-> 0, saved |-> FALSE]
NoRuleCall == [n |-> 0, memories |-> <<>>, before |-> <<>>, repeated |-> FALSE]
MaintIdle == upkeep = NoUpkeep /\ calls = <<>> /\ rulesFile = <<>> /\ ruleCall = NoRuleCall

ServicesIdle == FaultIdle /\ InjectionIdle /\ RecognizerIdle /\ HistoryIdle /\ MaintIdle

(***************************************************************************)
(* Specification of the Selector.                                          *)
(***************************************************************************)
SelInit ==
    /\ memories \in SelCorpora
    /\ sel = NoCall
    /\ cmp = NoCompress
    /\ ValidatorIdle
    /\ EditorIdle
    /\ ServicesIdle

SelectForFile ==
    \E file \in SelFiles :
        /\ sel' = [called |-> TRUE, file |-> file,
                   out |-> getRelevantMemoriesForFile(memories, file)]
        /\ UNCHANGED <<serviceVars, memories, cmp, validatorVars, editorVars>>

SelectNoFile ==
    /\ sel' = [called |-> TRUE, file |-> NoFile,
               out |-> getRelevantMemoriesForFile(memories, NoFile)]
    /\ UNCHANGED <<serviceVars, memories, cmp, validatorVars, editorVars>>

SelNext == SelectForFile \/ SelectNoFile

SpecSelect == SelInit /\ [][SelNext]_vars

(***************************************************************************)
(* Specification of the Compressor: formatMemoriesAsContext applied to a   *)
(* selection and a token budget.                                           *)
(***************************************************************************)
CmpInit ==
    /\ memories = <<>>
    /\ sel = NoCall
    /\ cmp \in {[NoCompress EXCEPT !.memories = ms, !.maxTokens = b] :
                    ms \in CmpSelections, b \in CmpBudgets}
    /\ ValidatorIdle
    /\ EditorIdle
    /\ ServicesIdle

FormatContext ==
    /\ ~cmp.called
    /\ cmp' = [cmp EXCEPT !.called = TRUE,
                          !.compressed = compressMemories(cmp.memories, cmp.maxTokens),
                          !.printed = printedEntries(
                                          compressMemories(cmp.memories, cmp.maxTokens)),
                          !.context = formatMemoriesAsContext(cmp.memories, cmp.maxTokens)]
    /\ UNCHANGED <<serviceVars, memories, sel, validatorVars, editorVars>>

CmpNext == FormatContext

SpecCompress == CmpInit /\ [][CmpNext]_vars

(***************************************************************************)
(* Specifications of the Validator.  SpecValidate: a validator is made on  *)
(* a corpus and validates documents.  SpecRevalidate: the store and the    *)
(* clock also move while the validator lives.                              *)
(***************************************************************************)
\* const validator = new CodeValidator(await storage.loadMemories(), storage),
\* or one made without a storage.
NewValidator ==
    \E hasStorage \in BOOLEAN :
        /\ ~vld.made
        /\ vld' = newCodeValidator(memories, hasStorage, memories, now)
        /\ UNCHANGED <<serviceVars, memories, now, last, injectorVars, editorVars>>

\* validator.validateCode(code, filePath, language)
ValidateCode ==
    \E doc \in ValDocs :
        /\ vld.made
        /\ last.n < MaxCalls
        /\ vld' = reloaded(vld, memories, now)
        /\ last' = [n |-> last.n + 1, doc |-> doc, corpus |-> memories,
                    result |-> validateCode(doc, vld.memories, vld.checker,
                                            reloaded(vld, memories, now).architectureMemories)]
        /\ UNCHANGED <<serviceVars, memories, now, injectorVars, editorVars>>

\* An id no record of the store has
NextId(ms) == CHOOSE n \in 1..(Len(ms) + 1) :
                  /\ \A i \in 1..Len(ms) : ms[i].id # n
                  /\ \A k \in 1..(n - 1) : \E i \in 1..Len(ms) : ms[i].id = k

\* MemoryStorage.addMemory
AddMemory ==
    \E m \in AddPool :
        /\ Len(memories) < MaxStore
        /\ memories' = Append(memories, WithId(m, NextId(memories)))
        /\ UNCHANGED <<serviceVars, validatorVars, injectorVars, editorVars>>

Tick ==
    /\ now < StartTime + MaxTicks * TickStep
    /\ now' = now + TickStep
    /\ UNCHANGED <<serviceVars, memories, vld, last, injectorVars, editorVars>>

ValInit ==
    /\ memories \in ValCorpora
    /\ ValidatorIdle
    /\ InjectorIdle
    /\ EditorIdle
    /\ ServicesIdle

ValNext == NewValidator \/ ValidateCode

SpecValidate == ValInit /\ [][ValNext]_vars

RevalInit ==
    /\ memories = <<>>
    /\ ValidatorIdle
    /\ InjectorIdle
    /\ EditorIdle
    /\ ServicesIdle

RevalNext == NewValidator \/ ValidateCode \/ AddMemory \/ Tick

SpecRevalidate == RevalInit /\ [][RevalNext]_vars

(***************************************************************************)
(* Specification of the core on a living store.  SpecCore: records are     *)
(* added to the store while compressed contexts are asked for and          *)
(* documents are validated.                                                *)
(***************************************************************************)
CoreFiles == SelFiles \cup {NoFile}
CoreBudgets == {MaxBudget, DefaultMaxTokens}

\* The bundle of formatMemoriesAsContext(selection, maxTokens)
Formatted(selection, maxTokens) ==
    [called |-> TRUE, memories |-> selection, maxTokens |-> maxTokens,
     compressed |-> compressMemories(selection, maxTokens),
     printed |-> printedEntries(compressMemories(selection, maxTokens)),
     context |-> formatMemoriesAsContext(selection, maxTokens)]

\* What getCompressedContext(filePath, maxTokens) computes
CompressedContextOf(file, maxTokens) ==
    /\ sel' = [called |-> TRUE, file |-> file,
               out |-> getRelevantMemoriesForFile(memories, file)]
    /\ cmp' = Formatted(getRelevantMemoriesForFile(memories, file), maxTokens)
    /\ UNCHANGED <<serviceVars, validatorVars, editorVars>>

\* A getCompressedContext that would write its selection back to the store
GetCompressedContextSaving ==
    \E file \in CoreFiles, maxTokens \in CoreBudgets :
        /\ CompressedContextOf(file, maxTokens)
        /\ memories' = getRelevantMemoriesForFile(memories, file)

\* injector.getCompressedContext(filePath, maxTokens): the store is loaded,
\* never saved
GetCompressedContext ==
    \E file \in CoreFiles, maxTokens \in CoreBudgets :
        /\ CompressedContextOf(file, maxTokens)
        /\ UNCHANGED memories

CoreInit ==
    /\ memories = <<>>
    /\ ValidatorIdle
    /\ InjectorIdle
    /\ EditorIdle
    /\ ServicesIdle

CoreNext == GetCompressedContext \/ NewValidator \/ ValidateCode \/ AddMemory

SpecCore == CoreInit /\ [][CoreNext]_vars

(***************************************************************************)
(* Specification of the core on a store with malformed entries.            *)
(* SpecMalformed: some records of memories.json have no tags field; a      *)
(* selection or a validation runs on the store.                            *)
(***************************************************************************)
\* memory.tags.filter(...) of calculateRelevance, called for every record of
\* the store by memories.map: a TypeError on a record without tags.  Without
\* a file path no record is scored.
selectionThrows(ms, absent, file) ==
    /\ file # NoFile
    /\ \E i \in 1..Len(ms) : ms[i].id \in absent

\* m.tags.includes('naming') in the filter of validateNaming, evaluated for
\* every record whose category is not code_style
namingFilterThrows(ms, absent) ==
    \E i \in 1..Len(ms) : ms[i].id \in absent /\ ms[i].category # "code_style"

\* m.tags.some(...) in the filter of loadArchitectureMemories, evaluated when
\* the two tests before it are false; the TypeError is caught there and the
\* checker keeps the list it had
archLoadThrows(store, absent) ==
    \E i \in 1..Len(store) :
        /\ store[i].id \in absent
        /\ store[i].category # "architecture"
        /\ ~(store[i].category = "constraint" /\ IsCritical(store[i]))

\* The list of a checker made on the store
archOfNew(store, absent, hasStorage) ==
    IF hasStorage /\ ~archLoadThrows(store, absent)
    THEN loadArchitectureMemories(store)
    ELSE <<>>

\* injector.getRelevantMemoriesForFile(filePath) on the store
SelectOnStore ==
    \E file \in CoreFiles :
        /\ outcome' = [op |-> "select", file |-> file, doc |-> NoDoc, checker |-> FALSE,
                       threw |-> selectionThrows(memories, missing, file),
                       out |-> IF selectionThrows(memories, missing, file)
                               THEN <<>>
                               ELSE getRelevantMemoriesForFile(memories, file)]
        /\ UNCHANGED <<memories, missing, injectionVars, recognizerVars, historyVars, maintVars,
                       injectorVars, validatorVars, editorVars>>

\* new CodeValidator(await storage.loadMemories(), storage?) and
\* validator.validateCode(code, filePath, language) on the store
ValidateOnStore ==
    \E doc \in ValDocs, hasStorage \in BOOLEAN :
        /\ outcome' = [op |-> "validate", file |-> NoFile, doc |-> doc,
                       checker |-> hasStorage,
                       threw |-> namingFilterThrows(memories, missing),
                       out |-> IF namingFilterThrows(memories, missing)
                               THEN NoResult
                               ELSE validateCode(doc, memories, hasStorage,
                                                 archOfNew(memories, missing, hasStorage))]
        /\ UNCHANGED <<memories, missing, injectionVars, recognizerVars, historyVars, maintVars,
                       injectorVars, validatorVars, editorVars>>

\* The stores: a corpus of the Validator and the records of it that were
\* written without tags.
WithoutTags(ms, absent) ==
    [i \in 1..Len(ms) |-> IF ms[i].id \in absent THEN [ms[i] EXCEPT !.tags = <<>>]
                                                ELSE ms[i]]

MalInit ==
    /\ \E ms \in ValCorpora :
         \E absent \in SUBSET {ms[i].id : i \in 1..Len(ms)} :
            /\ memories = WithoutTags(ms, absent)
            /\ missing = absent
    /\ outcome = NoOutcome
    /\ InjectionIdle /\ RecognizerIdle /\ HistoryIdle /\ MaintIdle
    /\ ValidatorIdle
    /\ InjectorIdle
    /\ EditorIdle

MalNext == SelectOnStore \/ ValidateOnStore

SpecMalformed == MalInit /\ [][MalNext]_vars

(***************************************************************************)
(* Specification of the injection into the active editor.  SpecInject:     *)
(* injectMemoriesToEditor is called again and again on one document while  *)
(* the user types in it.  editor.edit builds an edit on the version of the *)
(* extension's copy of the document and sends it to the editor without     *)
(* waiting; the editor applies an edit only to the version it was built    *)
(* on, and reports every change of the document back to the extension.     *)
(***************************************************************************)
EditedFile == CHOOSE f \in SelFiles : f.path = AuthPath

\* existingText.includes('CURSOR MEMORY CONTEXT'); the comment prefix put
\* before each line of the bundle keeps every line of it
HasMarker(text) == \E i \in 1..Len(text) : text[i] = HeaderMarker

\* The edit of a call that found the given records, if it makes one
editOf(ms, version, text) ==
    IF ms = <<>> \/ text.marked
    THEN <<>>
    ELSE << [version |-> version, result |-> "pending",
             marked |-> HasMarker(formatMemoriesAsContext(ms, DefaultMaxTokens))] >>

\* injector.injectMemoriesToEditor(editor), from the return of
\* getRelevantMemoriesForFile on: the marker is looked for in the extension's
\* copy of the document and the edit is built on that copy
InjectMemoriesToEditor ==
    /\ Len(edits) < MaxEdits
    /\ edits' = edits \o editOf(getRelevantMemoriesForFile(memories, EditedFile),
                                seen, buffer[seen])
    /\ UNCHANGED <<memories, faultVars, buffer, seen, cursorRules, report,
                   recognizerVars, historyVars, maintVars, injectorVars, validatorVars, editorVars>>

Pending == {i \in 1..Len(edits) : edits[i].result = "pending"}

\* An editor that would apply an edit to any version of the document
acceptsAny(edit, version) == edit.version <= version

\* The editor applies an edit only if the document is still at the version
\* the edit was built on.
accepts(edit, version) == edit.version = version

\* The text after the insertion of the block of an edit
inserted(text, edit) ==
    [blocks |-> text.blocks + 1, marked |-> text.marked \/ edit.marked]

\* The editor serves the oldest edit it has not served yet.
ApplyEdit ==
    /\ Pending # {}
    /\ edits' = [edits EXCEPT ![FirstIn(Pending)].result =
                     IF accepts(edits[FirstIn(Pending)], Len(buffer))
                     THEN "applied" ELSE "rejected"]
    /\ buffer' = IF accepts(edits[FirstIn(Pending)], Len(buffer))
                 THEN Append(buffer, inserted(buffer[Len(buffer)], edits[FirstIn(Pending)]))
                 ELSE buffer
    /\ UNCHANGED <<memories, faultVars, seen, cursorRules, report,
                   recognizerVars, historyVars, maintVars, injectorVars, validatorVars, editorVars>>

\* The user types in the document, outside of any injected block.
UserEdit ==
    /\ Len(buffer) < MaxVersions
    /\ buffer' = Append(buffer, buffer[Len(buffer)])
    /\ UNCHANGED <<memories, faultVars, seen, edits, cursorRules, report,
                   recognizerVars, historyVars, maintVars, injectorVars, validatorVars, editorVars>>

\* The extension receives the next change of the document.
SyncDocument ==
    /\ seen < Len(buffer)
    /\ seen' = seen + 1
    /\ UNCHANGED <<memories, faultVars, buffer, edits, cursorRules, report,
                   recognizerVars, historyVars, maintVars, injectorVars, validatorVars, editorVars>>

InjCorpora == {Corpus(p, 0) : p \in SeqsUpTo(SelPool, 1)}

InjInit ==
    /\ memories \in InjCorpora
    /\ ValidatorIdle
    /\ InjectorIdle
    /\ EditorIdle
    /\ ServicesIdle

InjNext == InjectMemoriesToEditor \/ ApplyEdit \/ UserEdit \/ SyncDocument

SpecInject == InjInit /\ [][InjNext]_vars

(***************************************************************************)
(* The pattern recognizer (codePatternRecognizer.ts).  Its texts are       *)
(* sequences of characters.                                                *)
(***************************************************************************)
Digits == {"0", "1", "2", "3", "4", "5", "6", "7", "8", "9"}
Letters ==
    {"a", "b", "c", "d", "e", "f", "g", "h", "i", "j", "k", "l", "m", "n", "o", "p",
     "q", "r", "s", "t", "u", "v", "w", "x", "y", "z", "T"}
WordChars == Letters \cup Digits \cup {"_"}

\* The text has p at index i
HasAt(t, i, p) == i + Len(p) - 1 <= Len(t) /\ SubSeq(t, i, i + Len(p) - 1) = p

\* code.replace(/\/\/.*$/gm, ''): from // to the end of the line
RECURSIVE stripLineComments(_, _)
stripLineComments(t, i) ==
    IF i > Len(t) THEN <<>>
    ELSE IF HasAt(t, i, <<"/", "/">>)
    THEN stripLineComments(t, FirstIn({j \in i..(Len(t) + 1) :
                                          j = Len(t) + 1 \/ t[j] = "\n"}))
    ELSE <<t[i]>> \o stripLineComments(t, i + 1)

\* normalized.replace(/\/\*[\s\S]*?\*\//g, '')
RECURSIVE stripBlockComments(_, _)
stripBlockComments(t, i) ==
    IF i > Len(t) THEN <<>>
    ELSE IF HasAt(t, i, <<"/", "*">>)
            /\ \E j \in (i + 2)..Len(t) : HasAt(t, j, <<"*", "/">>)
    THEN stripBlockComments(t, FirstIn({j \in (i + 2)..Len(t) :
                                           HasAt(t, j, <<"*", "/">>)}) + 2)
    ELSE <<t[i]>> \o stripBlockComments(t, i + 1)

\* normalized.replace(/["'][^"']*["']/g, '""')
RECURSIVE replaceStrings(_, _)
replaceStrings(t, i) ==
    IF i > Len(t) THEN <<>>
    ELSE IF t[i] \in Quotes /\ \E j \in (i + 1)..Len(t) : t[j] \in Quotes
    THEN <<"\"", "\"">>
         \o replaceStrings(t, FirstIn({j \in (i + 1)..Len(t) : t[j] \in Quotes}) + 1)
    ELSE <<t[i]>> \o replaceStrings(t, i + 1)

\* The index after the run of digits that starts at i
DigitsEnd(t, i) == FirstIn({j \in i..(Len(t) + 1) : j = Len(t) + 1 \/ t[j] \notin Digits})

\* normalized.replace(/\b\d+\b/g, '0')
RECURSIVE replaceNumbers(_, _)
replaceNumbers(t, i) ==
    IF i > Len(t) THEN <<>>
    ELSE IF /\ t[i] \in Digits
            /\ (i = 1 \/ t[i - 1] \notin WordChars)
            /\ (DigitsEnd(t, i) > Len(t) \/ t[DigitsEnd(t, i)] \notin WordChars)
    THEN <<"0">> \o replaceNumbers(t, DigitsEnd(t, i))
    ELSE <<t[i]>> \o replaceNumbers(t, i + 1)

\* CodePatternRecognizer.normalizeCode
normalizeCode(code) ==
    Trim(CollapseWs(replaceNumbers(replaceStrings(stripBlockComments(
        stripLineComments(code, 1), 1), 1), 1)))

KeyLines == 5
KeyLength == 100

\* lines.join(sep)
RECURSIVE Join(_, _)
Join(lines, sep) ==
    IF lines = <<>> THEN <<>>
    ELSE IF Len(lines) = 1 THEN lines[1]
    ELSE lines[1] \o sep \o Join(Tail(lines), sep)

\* code.split('\n')
RECURSIVE SplitLines(_)
SplitLines(t) ==
    IF \E i \in 1..Len(t) : t[i] = "\n"
    THEN <<SubSeq(t, 1, FirstIn({i \in 1..Len(t) : t[i] = "\n"}) - 1)>>
         \o SplitLines(SubSeq(t, FirstIn({i \in 1..Len(t) : t[i] = "\n"}) + 1, Len(t)))
    ELSE <<t>>

\* CodePatternRecognizer.generatePatternKey
generatePatternKey(code) ==
    Slice(Join(Slice(SplitLines(code), 0, KeyLines), <<" ">>), 0, KeyLength)

\* The test of functionPatterns[language] on a line: /^func\s+\w+/ for go and
\* /^def\s+\w+/ for python.  The languages without an entry, and those whose
\* files are not among the inputs, give no snippet.
startsFunction(line, language) ==
    LET word == IF language = "go" THEN <<"f", "u", "n", "c">>
                ELSE IF language = "python" THEN <<"d", "e", "f">>
                ELSE <<>>
        rest == SubSeq(line, Len(word) + 1, Len(line))
    IN  /\ word # <<>>
        /\ HasAt(line, 1, word)
        /\ rest # <<>> /\ IsWs(rest[1])
        /\ \E j \in 2..Len(rest) :
              /\ rest[j] \in WordChars
              /\ \A k \in 1..(j - 1) : IsWs(rest[k])

\* CodePatternRecognizer.countBraces
countBraces(line) ==
    Count(line, LAMBDA c : c = "{") - Count(line, LAMBDA c : c = "}")

\* The loop of extractCodeSnippets from line i on
RECURSIVE snippetLoop(_, _, _, _, _, _)
snippetLoop(lines, i, language, currentFunction, inFunction, braceCount) ==
    IF i > Len(lines) THEN <<>>
    ELSE IF startsFunction(lines[i], language)
    THEN (IF inFunction /\ currentFunction # <<>>
          THEN <<Join(currentFunction, <<"\n">>)>> ELSE <<>>)
         \o snippetLoop(lines, i + 1, language, <<lines[i]>>, TRUE, countBraces(lines[i]))
    ELSE IF inFunction
    THEN IF braceCount + countBraces(lines[i]) = 0
         THEN <<Join(Append(currentFunction, lines[i]), <<"\n">>)>>
              \o snippetLoop(lines, i + 1, language, <<>>, FALSE, 0)
         ELSE snippetLoop(lines, i + 1, language, Append(currentFunction, lines[i]),
                          TRUE, braceCount + countBraces(lines[i]))
    ELSE snippetLoop(lines, i + 1, language, currentFunction, inFunction, braceCount)

\* CodePatternRecognizer.extractCodeSnippets on the lines of a file
extractCodeSnippets(lines, language) == snippetLoop(lines, 1, language, <<>>, FALSE, 0)

\* CodePatternRecognizer.getLanguageFromExtension
getLanguageFromExtension(ext) ==
    CASE ext = ".go" -> "go"
      [] ext = ".js" -> "javascript"
      [] ext = ".ts" -> "typescript"
      [] ext = ".py" -> "python"
      [] ext = ".java" -> "java"
      [] ext = ".rs" -> "rust"
      [] ext = ".cpp" -> "cpp"
      [] ext = ".c" -> "c"
      [] ext = ".cs" -> "csharp"
      [] ext = ".php" -> "php"
      [] ext = ".rb" -> "ruby"
      [] OTHER -> "unknown"

sourceExtensions ==
    {".go", ".js", ".ts", ".py", ".java", ".rs", ".cpp", ".c", ".cs", ".php", ".rb"}

MinKeyLength == 20
CommonCount == 3
CommonFiles == 2
SampleCap == 50

\* The snippets of the files, each with its file and its pattern key
\* (codeSnippets of recognizeLanguagePatterns, normalized and keyed as in the
\* first loop of identifyCommonPatterns)
keyedSnippets(files, language) ==
    Flatten(Map(files, LAMBDA f :
        Map(extractCodeSnippets(f.lines, language), LAMBDA code :
            [file |-> f.name, normalized |-> normalizeCode(code),
             key |-> generatePatternKey(normalizeCode(code))])))

\* The keys of patternMap, in the order they were set
RECURSIVE distinctKeys(_, _)
distinctKeys(keyed, seenKeys) ==
    IF keyed = <<>> THEN <<>>
    ELSE IF keyed[1].key \in seenKeys THEN distinctKeys(Tail(keyed), seenKeys)
    ELSE <<keyed[1].key>> \o distinctKeys(Tail(keyed), seenKeys \cup {keyed[1].key})

\* The pattern made of the entry of a key; its name is numbered when pushed
patternOf(key, counted, language) ==
    [language |-> language, pattern |-> key,
     frequency |-> Count(counted, LAMBDA c : c.key = key),
     files |-> {counted[i].file : i \in {j \in 1..Len(counted) : counted[j].key = key}}]

\* CodePatternRecognizer.identifyCommonPatterns
commonOf(counted, language) ==
    SelectSeq(Map(distinctKeys(counted, {}), LAMBDA key : patternOf(key, counted, language)),
              LAMBDA p : p.frequency >= CommonCount /\ Cardinality(p.files) >= CommonFiles)

named(ps) == [k \in 1..Len(ps) |-> [name |-> k] @@ ps[k]]

identifyCommonPatterns(keyed, language) ==
    named(commonOf(SelectSeq(keyed, LAMBDA c : Len(c.normalized) >= MinKeyLength),
                   language))

\* The keys of groupFilesByLanguage, in the order they were set
RECURSIVE languagesOf(_, _)
languagesOf(files, seenLanguages) ==
    IF files = <<>> THEN <<>>
    ELSE IF getLanguageFromExtension(files[1].ext) \in seenLanguages
    THEN languagesOf(Tail(files), seenLanguages)
    ELSE <<getLanguageFromExtension(files[1].ext)>>
         \o languagesOf(Tail(files),
                        seenLanguages \cup {getLanguageFromExtension(files[1].ext)})

\* CodePatternRecognizer.recognizeLanguagePatterns
recognizeLanguagePatterns(language, files) ==
    identifyCommonPatterns(keyedSnippets(Slice(files, 0, SampleCap), language), language)

\* What recognizePatterns returns on the files of a workspace folder
patternsOfFiles(sourceFiles) ==
    Flatten(Map(languagesOf(sourceFiles, {}), LAMBDA language :
        recognizeLanguagePatterns(language,
            SelectSeq(sourceFiles,
                      LAMBDA f : getLanguageFromExtension(f.ext) = language))))

\* CodePatternRecognizer.recognizePatterns: scanSourceFiles keeps the files
\* with a source extension
recognizePatterns(files) ==
    patternsOfFiles(SelectSeq(files, LAMBDA f : f.ext \in sourceExtensions))

\* One row of the matrix of levenshteinDistance, the row of the character c
\* of str2 below the row prev; index j + 1 holds column j.  A cell whose
\* characters are equal takes the cell above and to the left of it; any other
\* cell takes one more than the least of that cell, the cell above it and the
\* cell to the left of it.  fresh(k) is the value of column k without the
\* cell to its left, and the cell to the left is followed back to the
\* nearest column whose characters are equal.
levRow(prev, c, str1) ==
    LET fresh(k) == IF k = 0 THEN prev[1] + 1
                    ELSE IF c = str1[k] THEN prev[k]
                    ELSE 1 + Min(prev[k], prev[k + 1])
        anchor(j) == LastIn({k \in 0..j : k = 0 \/ c = str1[k]})
    IN  SubSeq([col \in 1..(Len(str1) + 1) |->
                   FirstIn({fresh(k) + (col - 1 - k) : k \in anchor(col - 1)..(col - 1)})],
               1, Len(str1) + 1)

\* The rows of the matrix from the row of str2[i] on, below the row prev;
\* every row has a cell for each character of str1 and one more
RECURSIVE levRows(_, _, _, _)
levRows(prev, str1, str2, i) ==
    IF Len(prev) = Len(str1) + 1 /\ i <= Len(str2)
    THEN levRows(levRow(prev, str2[i], str1), str1, str2, i + 1)
    ELSE prev

\* CodePatternRecognizer.levenshteinDistance: matrix[str2.length][str1.length]
levenshteinDistance(str1, str2) ==
    levRows(SubSeq([j \in 1..(Len(str1) + 1) |-> j - 1], 1, Len(str1) + 1),
            str1, str2, 1)[Len(str1) + 1]

FrequentCount == 5
SimilarityTenths == 3

\* calculateSimilarity(str1, str2) < 0.3, on the longer and the shorter of the
\* two; two empty strings have similarity 1
dissimilarOrdered(longer, shorter) ==
    /\ Len(longer) > 0
    /\ 10 * (Len(longer) - levenshteinDistance(longer, shorter))
          < SimilarityTenths * Len(longer)

dissimilar(str1, str2) ==
    IF Len(str1) > Len(str2) THEN dissimilarOrdered(str1, str2)
    ELSE dissimilarOrdered(str2, str1)

\* The loop of detectPatternInconsistencies: one issue for each frequent
\* pattern the code is not similar to
inconsistencies(codeKey, languagePatterns) ==
    Map(SelectSeq(languagePatterns, LAMBDA p :
            /\ p.frequency >= FrequentCount
            /\ dissimilar(codeKey, generatePatternKey(p.pattern))),
        LAMBDA p : [message |-> <<"inconsistent with", p.name>>, line |-> 1])

\* CodePatternRecognizer.detectPatternInconsistencies on the patterns the
\* recognizer holds
detectPatternInconsistencies(code, language, held) ==
    inconsistencies(generatePatternKey(normalizeCode(code)),
                    SelectSeq(held, LAMBDA p : p.language = language))

\* func get() { return 1 }
GetOne ==
    <<"f", "u", "n", "c", " ", "g", "e", "t", "(", ")", " ", "{", " ", "r",
      "e", "t", "u", "r", "n", " ", "1", " ", "}">>

\* func get() { return 22 } // two
GetTwo ==
    <<"f", "u", "n", "c", " ", "g", "e", "t", "(", ")", " ", "{", " ", "r",
      "e", "t", "u", "r", "n", " ", "2", "2", " ", "}", " ", "/", "/", " ",
      "t", "w", "o">>

\* func get()  {  return 3 }
GetWide ==
    <<"f", "u", "n", "c", " ", "g", "e", "t", "(", ")", " ", " ", "{", " ",
      " ", "r", "e", "t", "u", "r", "n", " ", "3", " ", "}">>

\* func put(k, v) { m[k] = v }
PutLine ==
    <<"f", "u", "n", "c", " ", "p", "u", "t", "(", "k", ",", " ", "v", ")",
      " ", "{", " ", "m", "[", "k", "]", " ", "=", " ", "v", " ", "}">>

\* def runs(): return 1
RunOne ==
    <<"d", "e", "f", " ", "r", "u", "n", "s", "(", ")", ":", " ", "r", "e",
      "t", "u", "r", "n", " ", "1">>

\* def runs():  return 22
RunTwo ==
    <<"d", "e", "f", " ", "r", "u", "n", "s", "(", ")", ":", " ", " ", "r",
      "e", "t", "u", "r", "n", " ", "2", "2">>

\* type T struct { a, b, c []int64 }
TypeDecl ==
    <<"t", "y", "p", "e", " ", "T", " ", "s", "t", "r", "u", "c", "t", " ",
      "{", " ", "a", ",", " ", "b", ",", " ", "c", " ", "[", "]", "i", "n",
      "t", "6", "4", " ", "}">>

(***************************************************************************)
(* Specification of the pattern recognizer.  SpecRecognize: the            *)
(* recognizePatterns command runs on workspace folders and snippets are    *)
(* checked against the patterns the recognizer holds.                      *)
(***************************************************************************)
RecFiles ==
    << [name |-> "a.go", ext |-> ".go", lines |-> <<GetOne, GetTwo, GetWide, <<>>>>],
       [name |-> "b.go", ext |-> ".go", lines |-> <<GetOne, GetTwo, <<>>>>],
       [name |-> "d.go", ext |-> ".go", lines |-> <<PutLine, GetOne, <<>>, GetTwo>>],
       [name |-> "e.py", ext |-> ".py", lines |-> <<RunOne, RunTwo, <<>>>>],
       [name |-> "notes.md", ext |-> ".md", lines |-> <<GetOne, <<>>>>] >>

\* The workspace folder that holds the given files
Workspace(S) == SelectSeq(RecFiles, LAMBDA f : \E i \in S : RecFiles[i] = f)

RecCodes == {GetOne, GetTwo, TypeDecl, RunTwo}
RecLanguages == {"go", "python"}

\* The recognizePatterns command (extension.ts): recognizePatterns returns
\* the patterns it found; the map this.patterns of the recognizer is not
\* assigned by it, nor by any other method.
RecognizePatterns ==
    \E S \in SUBSET (1..Len(RecFiles)) :
        /\ found' = [found EXCEPT !.called = TRUE,
                                  !.recognized = recognizePatterns(Workspace(S))]
        /\ UNCHANGED <<knownPatterns, memories, faultVars, injectionVars, historyVars, maintVars,
                       injectorVars, validatorVars, editorVars>>

\* recognizer.detectPatternInconsistencies(code, filePath, language)
DetectInconsistencies ==
    \E code \in RecCodes, language \in RecLanguages :
        /\ found' = [found EXCEPT !.checked = TRUE, !.code = code,
                                  !.language = language,
                                  !.established = found.recognized,
                                  !.issues = detectPatternInconsistencies(
                                                 code, language, knownPatterns)]
        /\ UNCHANGED <<knownPatterns, memories, faultVars, injectionVars, historyVars, maintVars,
                       injectorVars, validatorVars, editorVars>>

RecInit ==
    /\ memories = <<>>
    /\ ValidatorIdle
    /\ InjectorIdle
    /\ EditorIdle
    /\ ServicesIdle

RecNext == RecognizePatterns \/ DetectInconsistencies

SpecRecognize == RecInit /\ [][RecNext]_vars

(***************************************************************************)
(* Specification of the editor glue.  The extension is active, no editor   *)
(* was visible when it was activated, and autoValidate is on.              *)
(***************************************************************************)
\* validateDocument(document): the collection of the extension and the record
\* of the completed validation after it.
validateDocument(uri) ==
    LET document == documentOf(uri, texts[uri])
        diagnostics == liveDiagnostics(freshValidation(document, memories, now).issues)
    IN  IF skipped(uri) THEN UNCHANGED <<diag, done, awaiting>>
        ELSE IF Len(memories) = 0
        THEN /\ diag' = [diag EXCEPT ![uri] = <<>>]
             /\ done' = Done(uri, <<>>)
             /\ awaiting' = awaiting \ {uri}
        ELSE /\ diag' = [diag EXCEPT ![uri] = diagnostics]
             /\ done' = Done(uri, diag'[uri])
             /\ awaiting' = awaiting \ {uri}

\* The handler of onDidChangeTextDocument, after the text has changed.
ChangeDocument ==
    \E uri \in Uris : \E version \in 1..Len(Versions(uri)) :
        /\ texts' = [texts EXCEPT ![uri] = version]
        /\ timer' = [pending |-> TRUE, doc |-> uri]
        /\ awaiting' = awaiting \cup {uri}
        /\ UNCHANGED <<serviceVars, memories, opening, diag, manual, done, validatorVars, injectorVars>>

\* The timeout of validationTimer expires.
ChangeTimerFires ==
    /\ timer.pending
    /\ timer' = [timer EXCEPT !.pending = FALSE]
    /\ validateDocument(timer.doc)
    /\ UNCHANGED <<serviceVars, memories, texts, opening, manual, validatorVars, injectorVars>>

\* The handler of onDidOpenTextDocument
OpenDocument ==
    \E uri \in Uris \ opening :
        /\ Cardinality(opening) < MaxOpening
        /\ opening' = opening \cup {uri}
        /\ UNCHANGED <<serviceVars, memories, texts, timer, diag, manual, done, awaiting,
                       validatorVars, injectorVars>>

\* A timeout of onDidOpenTextDocument expires.
OpenTimerFires ==
    \E uri \in opening :
        /\ opening' = opening \ {uri}
        /\ validateDocument(uri)
        /\ UNCHANGED <<serviceVars, memories, texts, timer, manual, validatorVars, injectorVars>>

\* MemoryManager.verifyCode on the active editor, with showValidationResult
VerifyCode ==
    \E uri \in Uris :
        LET result == freshValidation(documentOf(uri, texts[uri]), memories, now)
            diagnostics == manualDiagnostics(result.issues)
        IN  /\ Len(manual) < MaxManual
            /\ Len(memories) > 0
            /\ manual' = Append(manual, [uri |-> uri, diagnostics |-> diagnostics])
            /\ done' = Done(uri, manual'[Len(manual')].diagnostics)
            /\ UNCHANGED <<serviceVars, memories, texts, timer, opening, diag, awaiting,
                           validatorVars, injectorVars>>

\* MemoryStorage.deleteMemory
DeleteMemory ==
    \E i \in 1..Len(memories) :
        /\ memories' = SelectSeq(memories, LAMBDA m : m.id # memories[i].id)
        /\ UNCHANGED <<serviceVars, validatorVars, injectorVars, editorVars>>

EdInit ==
    /\ memories = <<>>
    /\ ValidatorIdle
    /\ InjectorIdle
    /\ EditorIdle
    /\ ServicesIdle

EdNext ==
    \/ ChangeDocument \/ ChangeTimerFires \/ OpenDocument \/ OpenTimerFires
    \/ VerifyCode \/ AddMemory \/ DeleteMemory

SpecEditor == EdInit /\ [][EdNext]_vars

\* The live validation of changed documents alone.  The timeout of
\* validationTimer is served: a timeout that is pending and is not cleared
\* expires.  TimerExpires is the step of ChangeTimerFires as the timer shows it.
DebNext == ChangeDocument \/ ChangeTimerFires \/ AddMemory

TimerExpires == timer.pending /\ timer' = [timer EXCEPT !.pending = FALSE]

SpecDebounce == EdInit /\ [][DebNext]_vars /\ WF_timer(TimerExpires)

(***************************************************************************)
(* Specification of the injectMemories command.  SpecCommand: the command  *)
(* runs on the active editor, editors are activated with autoInject on,    *)
(* and the store grows.                                                    *)
(***************************************************************************)
\* CursorApiResearch.checkCursorAvailability: a test file next to
\* .cursorrules can be written and removed, or a cursor.* command exists
checkCursorAvailability(cursor) == cursor.writable \/ cursor.commands

\* MemoryInjector.tryInjectViaCursorApi: injectViaCursorRules writes the
\* memories to .cursorrules if the folder can be written, injectViaCommands
\* hands them to the first cursor.* command that exists
tryInjectViaCursorApi(cursor) ==
    [cursor EXCEPT !.injected = cursor.injected \/ cursor.writable \/ cursor.commands]

\* What the command does once it has an editor and the relevant memories
commandOn(ms) ==
    IF ms = <<>>
    THEN report' = "nothing found" /\ UNCHANGED edits
    ELSE IF checkCursorAvailability(cursorRules)
    THEN report' = "injected through the Cursor API" /\ UNCHANGED edits
    ELSE /\ edits' = edits \o editOf(ms, seen, buffer[seen])
         /\ report' = "injected as a comment"

\* The command memoryManager.injectMemories
InjectMemoriesCommand ==
    \E hasEditor \in BOOLEAN :
        /\ Len(edits) < MaxEdits
        /\ IF hasEditor
           THEN commandOn(getRelevantMemoriesForFile(memories, EditedFile))
           ELSE report' = "open a file first" /\ UNCHANGED edits
        /\ UNCHANGED <<memories, faultVars, buffer, seen, cursorRules,
                       recognizerVars, historyVars, maintVars, injectorVars, validatorVars,
                       editorVars>>

\* onDidChangeActiveTextEditor of setupAutoInject on a source file
ActivateEditor ==
    /\ getRelevantMemoriesForFile(memories, EditedFile) # <<>>
    /\ cursorRules' = tryInjectViaCursorApi(cursorRules)
    /\ UNCHANGED <<memories, faultVars, buffer, seen, edits, report,
                   recognizerVars, historyVars, maintVars, injectorVars, validatorVars,
                   editorVars>>

ComInit ==
    /\ memories \in InjCorpora
    /\ cursorRules \in {[NoRules EXCEPT !.writable = w, !.commands = c] :
                            w \in BOOLEAN, c \in BOOLEAN}
    /\ buffer = <<NoText>> /\ seen = 1 /\ edits = <<>> /\ report = "none"
    /\ FaultIdle /\ RecognizerIdle /\ HistoryIdle /\ MaintIdle
    /\ ValidatorIdle
    /\ InjectorIdle
    /\ EditorIdle

ComNext ==
    \/ InjectMemoriesCommand \/ ActivateEditor \/ ApplyEdit \/ SyncDocument
    \/ UserEdit \/ AddMemory

SpecCommand == ComInit /\ [][ComNext]_vars

(***************************************************************************)
(* Specification of the version history (MemoryVersionManager).            *)
(* SpecHistory: the store changes, versions are created and rolled back    *)
(* to.                                                                     *)
(***************************************************************************)
\* MemoryVersionManager.incrementVersion
incrementVersion(current) == <<current[1], current[2], current[3] + 1>>

\* The history after createVersion on the store
created(history, current, store) ==
    Append(history, [version |-> incrementVersion(current), memories |-> store])

\* versionManager.createVersion(description)
CreateVersion ==
    /\ Len(versions) < MaxHistory
    /\ versions' = created(versions, currentVersion, memories)
    /\ currentVersion' = incrementVersion(currentVersion)
    /\ UNCHANGED <<memories, rolled, faultVars, injectionVars, recognizerVars, maintVars,
                   injectorVars, validatorVars, editorVars>>

\* this.versions.find(v => v.version === version): the first entry of the label
findVersion(history, version) ==
    FirstIn({i \in 1..Len(history) : history[i].version = version})

\* The rollbackVersion command: the user picks an entry of the history and
\* rollbackToVersion is called with its label.  The backup is created, the
\* snapshot of the entry found for the label is saved as the store, and the
\* label becomes the current version.
RollbackToVersion ==
    \E k \in 1..Len(versions) :
        /\ Len(versions) < MaxHistory
        /\ versions' = created(versions, currentVersion, memories)
        /\ memories' = versions[findVersion(versions, versions[k].version)].memories
        /\ currentVersion' = versions[k].version
        /\ rolled' = [called |-> TRUE, picked |-> k, backup |-> Len(versions) + 1,
                      before |-> memories,
                      after |-> versions[findVersion(versions, versions[k].version)].memories]
        /\ UNCHANGED <<faultVars, injectionVars, recognizerVars, maintVars,
                       injectorVars, validatorVars, editorVars>>

HistInit ==
    /\ memories = <<>>
    /\ ValidatorIdle
    /\ InjectorIdle
    /\ EditorIdle
    /\ ServicesIdle

HistNext == AddMemory \/ DeleteMemory \/ CreateVersion \/ RollbackToVersion

SpecHistory == HistInit /\ [][HistNext]_vars

(***************************************************************************)
(* Maintenance of the store: MemoryStorage.cleanExpiredMemories, the merge *)
(* of the refresh command (MemoryManager.mergeMemories) and                *)
(* MemoryManager.autoAdjustImportance.  SpecUpkeep: times are in days, a   *)
(* record carries its timestamp and its confidence in tenths (0 if it has  *)
(* none).                                                                  *)
(***************************************************************************)
DefaultMaxAge == 90
MergeMaxAge == 90
RecentDays == 30
StaleDays == 60
ConfidentTenths == 8
KeyChars == 50

Stamped(m, timestamp, confidence) ==
    [id |-> m.id, content |-> m.content, category |-> m.category,
     importance |-> m.importance, tags |-> m.tags, relatedFiles |-> m.relatedFiles,
     timestamp |-> timestamp, confidence |-> confidence]

\* A filter that looks at the age of a record alone
keptByAge(memory, time, maxAge) == time - memory.timestamp < maxAge

\* The filter of cleanExpiredMemories and of mergeMemories
keptAt(memory, time, maxAge) ==
    \/ memory.importance \in {"critical", "high"}
    \/ time - memory.timestamp < maxAge

\* MemoryStorage.cleanExpiredMemories: what it saves and what it returns
cleanExpiredMemories(ms, time, maxAge) ==
    [filtered |-> SelectSeq(ms, LAMBDA memory : keptAt(memory, time, maxAge)),
     returned |-> Len(ms) - Len(SelectSeq(ms, LAMBDA memory : keptAt(memory, time, maxAge)))]

\* `${memory.category}_${memory.content.substring(0, 50)}`
mergeKey(memory) == <<memory.category, TakeChars(memory.content, KeyChars)>>

\* existingMap.get(key): the last existing record of the key, 0 if none
existingOf(existing, key) ==
    IF \E i \in 1..Len(existing) : mergeKey(existing[i]) = key
    THEN LastIn({i \in 1..Len(existing) : mergeKey(existing[i]) = key}) ELSE 0

\* The files of a new record pushed to those of an existing one
RECURSIVE withFiles(_, _)
withFiles(files, new) ==
    IF new = <<>> THEN files
    ELSE withFiles(IF \E i \in 1..Len(files) : files[i] = Head(new)
                   THEN files ELSE Append(files, Head(new)),
                   Tail(new))

\* The loop over the new records of mergeMemories: a new record whose key an
\* existing record has refreshes that record, any other is pushed.
RECURSIVE mergeLoop(_, _, _, _)
mergeLoop(merged, existing, new, time) ==
    IF new = <<>> THEN merged
    ELSE LET at == existingOf(existing, mergeKey(Head(new)))
         IN  mergeLoop(IF at = 0 THEN Append(merged, Head(new))
                       ELSE [merged EXCEPT
                                ![at].timestamp = time,
                                ![at].confidence = Max(@, Head(new).confidence),
                                ![at].relatedFiles = withFiles(@, Head(new).relatedFiles)],
                       existing, Tail(new), time)

\* MemoryManager.mergeMemories
mergeMemories(existing, newMemories, time) ==
    SelectSeq(mergeLoop(existing, existing, newMemories, time),
              LAMBDA memory : keptAt(memory, time, MergeMaxAge))

\* One round of the loop of autoAdjustImportance with both promotions taken
adjustedLevelEager(memory, time) ==
    IF memory.timestamp > time - RecentDays
    THEN IF memory.importance \in {"low", "medium"} /\ memory.confidence > ConfidentTenths
         THEN "high"
         ELSE IF memory.importance = "low" THEN "medium" ELSE memory.importance
    ELSE IF memory.importance = "high"
            /\ memory.timestamp < time - RecentDays - StaleDays
         THEN "medium" ELSE memory.importance

\* The importance autoAdjustImportance leaves a record with
adjustedLevel(memory, time) ==
    IF memory.timestamp > time - RecentDays
    THEN IF memory.importance = "low" THEN "medium"
         ELSE IF memory.importance = "medium" /\ memory.confidence > ConfidentTenths
         THEN "high" ELSE memory.importance
    ELSE IF memory.importance = "high"
            /\ memory.timestamp < time - RecentDays - StaleDays
         THEN "medium" ELSE memory.importance

\* MemoryManager.autoAdjustImportance: the records after the loop and
\* adjustedCount
autoAdjustImportance(ms, time) ==
    [memories |-> Map(ms, LAMBDA memory :
                          [memory EXCEPT !.importance = adjustedLevel(memory, time)]),
     adjustedCount |-> Count(ms, LAMBDA memory :
                                     adjustedLevel(memory, time) # memory.importance)]

\* The day of the calls, later than every age of a record
UpkeepTime == 2 * DefaultMaxAge + StaleDays

UpkeepAges == {0, 1, RecentDays - 1, RecentDays, DefaultMaxAge - 1, DefaultMaxAge,
               DefaultMaxAge + 1}

Aged(importance, age, confidence) ==
    Stamped(Mem(0, <<"rule", " ", importance>>, "other", importance, <<>>, <<>>),
            UpkeepTime - age, confidence)

UpkeepPool ==
    {Aged(importance, age, 0) : importance \in Importances, age \in UpkeepAges}
    \cup {Aged(importance, RecentDays - 1, confidence) :
              importance \in {"low", "medium"},
              confidence \in {ConfidentTenths, ConfidentTenths + 1}}

UpkeepCorpora == {Numbered(ms) : ms \in SeqsUpTo(UpkeepPool, MaxUpkeep)}

\* What a scan of the project generates: records of the day of the scan
ScanPool ==
    { <<>>,
      <<Stamped(Mem(9, <<"rule", " ", "low">>, "other", "medium", <<>>, << <<"go.mod">> >>),
                UpkeepTime, ConfidentTenths + 1)>>,
      <<Stamped(Mem(9, <<"go", " ", "project">>, "architecture", "high", <<>>, <<>>),
                UpkeepTime, ConfidentTenths)>> }

\* The command cleanExpiredMemories with a number of days of at least 1
CleanExpired ==
    \E maxAge \in {1, DefaultMaxAge} :
        /\ memories' = cleanExpiredMemories(memories, UpkeepTime, maxAge).filtered
        /\ upkeep' = [op |-> "clean", time |-> UpkeepTime, maxAge |-> maxAge,
                      before |-> memories, after |-> memories',
                      returned |-> cleanExpiredMemories(memories, UpkeepTime, maxAge).returned,
                      saved |-> TRUE]
        /\ UNCHANGED <<calls, rulesFile, ruleCall, faultVars, injectionVars, recognizerVars,
                       historyVars, injectorVars, validatorVars, editorVars>>

\* The command refreshMemories: the store is loaded, merged with the records
\* of the scan and saved.
RefreshMemories ==
    \E newMemories \in ScanPool :
        /\ memories' = mergeMemories(memories, newMemories, UpkeepTime)
        /\ upkeep' = [op |-> "merge", time |-> UpkeepTime, maxAge |-> MergeMaxAge,
                      before |-> memories, after |-> memories',
                      returned |-> 0, saved |-> TRUE]
        /\ UNCHANGED <<calls, rulesFile, ruleCall, faultVars, injectionVars, recognizerVars,
                       historyVars, injectorVars, validatorVars, editorVars>>

\* The command autoAdjustImportance
AutoAdjustImportance ==
    /\ memories' = IF autoAdjustImportance(memories, UpkeepTime).adjustedCount > 0
                   THEN autoAdjustImportance(memories, UpkeepTime).memories
                   ELSE memories
    /\ upkeep' = [op |-> "adjust", time |-> UpkeepTime, maxAge |-> 0,
                  before |-> memories,
                  after |-> autoAdjustImportance(memories, UpkeepTime).memories,
                  returned |-> autoAdjustImportance(memories, UpkeepTime).adjustedCount,
                  saved |-> autoAdjustImportance(memories, UpkeepTime).adjustedCount > 0]
    /\ UNCHANGED <<calls, rulesFile, ruleCall, faultVars, injectionVars, recognizerVars,
                   historyVars, injectorVars, validatorVars, editorVars>>

UpkeepInit ==
    /\ memories \in UpkeepCorpora
    /\ ValidatorIdle
    /\ InjectorIdle
    /\ EditorIdle
    /\ ServicesIdle

UpkeepNext == CleanExpired \/ RefreshMemories \/ AutoAdjustImportance

SpecUpkeep == UpkeepInit /\ [][UpkeepNext]_vars

(***************************************************************************)
(***************************************************************************)
(* Operations on the store that are in flight together.  Every operation   *)
(* of MemoryStorage that changes the store is an async function that       *)
(* starts with `await this.loadMemories()`, and the load-then-save         *)
(* sequences of the callers have the same shape: the file is read when the *)
(* operation is called (readFileSync), and the change and saveMemories     *)
(* (writeFileSync) run in the continuation of the await, after the         *)
(* continuations of the operations called before it.  No lock and no queue *)
(* orders two operations: one called before the continuation of another    *)
(* has run (two calls of one turn of the event loop) reads the file the    *)
(* other has not written yet.  `calls` lists the operations called since   *)
(* the store was last quiet, in the order of the calls.                    *)
(***************************************************************************)
StoreCall(kind, id, memory, importance, loaded) ==
    [kind |-> kind, id |-> id, memory |-> memory, importance |-> importance,
     loaded |-> loaded, added |-> {}, done |-> FALSE]

\* No operation is between its load and its save
quiet == \A i \in 1..Len(calls) : calls[i].done

\* The ids the store or an operation in flight knows
usedIds ==
    Ids(memories)
        \cup UNION {Ids(calls[i].loaded) : i \in 1..Len(calls)}
        \cup {calls[i].id : i \in 1..Len(calls)}
        \cup {calls[i].memory.id : i \in 1..Len(calls)}

\* generateId(): an id that is not in use
generateId == CHOOSE n \in 1..(Cardinality(usedIds) + 1) :
                  /\ n \notin usedIds
                  /\ \A k \in 1..(n - 1) : k \in usedIds

\* The records a caller adds
StorePool ==
    { Mem(0, <<"wrap", " ", "errors">>, "code_style", "high", <<>>, <<>>),
      Mem(0, <<"express", " ", "routers">>, "api_spec", "medium", <<>>, <<>>) }

\* getPracticesByLanguage(lang) as a record: `${practice.title}: ${practice.content}`
PracticeMemory ==
    Mem(0, <<"Error", " ", "handling", ":", " ", "check", " ", "errors">>,
        "code_style", "high", <<<<"best-practice">>, <<"auto-applied">>>>, <<>>)

StoreCorpora == {Numbered(ms) : ms \in SeqsUpTo(StorePool, MaxHeld - 1)}

\* The operation is called: it is listed with the file it read
called(call) == IF quiet THEN <<call>> ELSE Append(calls, call)

MayCall == quiet \/ Len(calls) < MaxOverlap

\* memories.findIndex(m => m.id === id), 0 for -1
findIndex(ms, id) ==
    IF \E i \in 1..Len(ms) : ms[i].id = id
    THEN CHOOSE i \in 1..Len(ms) :
             /\ ms[i].id = id
             /\ \A k \in 1..(i - 1) : ms[k].id # id
    ELSE 0

\* allMemories.find(m => m.content === memory.content && m.category === memory.category)
exists(ms, memory) ==
    \E i \in 1..Len(ms) :
        ms[i].content = memory.content /\ ms[i].category = memory.category

\* What the continuation of an operation hands to saveMemories
toSave(call) ==
    CASE call.kind = "add" -> Append(call.loaded, call.memory)
      [] call.kind = "update" ->
             [call.loaded EXCEPT ![findIndex(call.loaded, call.id)].importance =
                                     call.importance]
      [] call.kind = "delete" -> SelectSeq(call.loaded, LAMBDA m : m.id # call.id)
      [] call.kind = "apply" ->
             IF exists(call.loaded, call.memory) THEN call.loaded
             ELSE Append(call.loaded, WithId(call.memory, generateId))

\* updateMemory saves only if it found the record
saves(call) == call.kind = "update" => findIndex(call.loaded, call.id) # 0

\* The ids of the records the operation pushed
pushed(call) ==
    CASE call.kind = "add" -> {call.memory.id}
      [] call.kind = "apply" ->
             IF exists(call.loaded, call.memory) THEN {} ELSE {generateId}
      [] OTHER -> {}

StoreUnchanged ==
    UNCHANGED <<upkeep, rulesFile, ruleCall, faultVars, injectionVars, recognizerVars,
                historyVars, injectorVars, validatorVars, editorVars>>

\* MemoryStorage.addMemory up to its await: the caller made the record
CallAddMemory ==
    \E m \in StorePool :
        /\ MayCall
        /\ Len(memories) < MaxHeld
        /\ calls' = called(StoreCall("add", 0, WithId(m, generateId), "", memories))
        /\ UNCHANGED memories
        /\ StoreUnchanged

\* MemoryStorage.updateMemory(id, {importance}) up to its await
CallUpdateMemory ==
    \E id \in Ids(memories), importance \in {"critical"} :
        /\ MayCall
        /\ calls' = called(StoreCall("update", id, PracticeMemory, importance, memories))
        /\ UNCHANGED memories
        /\ StoreUnchanged

\* MemoryStorage.deleteMemory(id) up to its await
CallDeleteMemory ==
    \E id \in Ids(memories) :
        /\ MayCall
        /\ calls' = called(StoreCall("delete", id, PracticeMemory, "", memories))
        /\ UNCHANGED memories
        /\ StoreUnchanged

\* BestPracticeLibrary.applyPracticesToProject up to its await
CallApplyPractices ==
    /\ MayCall
    /\ Len(memories) < MaxHeld
    /\ calls' = called(StoreCall("apply", 0, PracticeMemory, "", memories))
    /\ UNCHANGED memories
    /\ StoreUnchanged

\* The continuation of the operation called first among those in flight
ContinueCall ==
    \E i \in 1..Len(calls) :
        /\ ~calls[i].done
        /\ \A k \in 1..(i - 1) : calls[k].done
        /\ memories' = IF saves(calls[i]) THEN toSave(calls[i]) ELSE memories
        /\ calls' = [calls EXCEPT ![i].done = TRUE, ![i].added = pushed(calls[i])]
        /\ StoreUnchanged

StoreInit ==
    /\ memories \in StoreCorpora
    /\ ValidatorIdle
    /\ InjectorIdle
    /\ EditorIdle
    /\ ServicesIdle

StoreNext ==
    \/ CallAddMemory
    \/ CallUpdateMemory
    \/ CallDeleteMemory
    \/ CallApplyPractices
    \/ ContinueCall

SpecStore == StoreInit /\ [][StoreNext]_vars
(***************************************************************************)
(* Injection through .cursorrules (CursorApiResearch).  The file is a      *)
(* sequence of lexemes: a line break, a marker, a title or a piece of      *)
(* text is one lexeme, so that indexOf and substring of the source cut the *)
(* file where the code cuts it.                                            *)
(***************************************************************************)
NL == "\n"
StartMarker == "=== CodeMind ==="
EndMarker == "=== [jiyi jieshu] ==="
RulesIntro == "[zhexie shi xiangmu de guanjian jiyi he guize, AI bixu zunshou.]"
CriticalTitle == "[qiangzhi zunshou - buke weifan]"
HighTitle == "[jianyi zunshou]"
RulesPerSection == 20

\* One section of formatMemoriesAsRules: the title, a line "- content" for
\* each of the first RulesPerSection records, and an empty line
RECURSIVE ruleLines(_)
ruleLines(ms) ==
    IF ms = <<>> THEN <<>>
    ELSE <<"- ">> \o Head(ms).content \o <<NL>> \o ruleLines(Tail(ms))

rulesSection(title, ms) ==
    IF ms = <<>> THEN <<>>
    ELSE <<title, NL>> \o ruleLines(SubSeq(ms, 1, Min(Len(ms), RulesPerSection)))
             \o <<NL>>

\* CursorApiResearch.formatMemoriesAsRules
formatMemoriesAsRules(ms) ==
    <<NL, StartMarker, NL, RulesIntro, NL, NL>>
        \o rulesSection(CriticalTitle, SelectSeq(ms, LAMBDA m : m.importance = "critical"))
        \o rulesSection(HighTitle, SelectSeq(ms, LAMBDA m : m.importance = "high"))
        \o <<EndMarker, NL>>

\* String.prototype.indexOf of a lexeme, 0 for -1
indexOf(text, lexeme) ==
    IF \E i \in 1..Len(text) : text[i] = lexeme
    THEN CHOOSE i \in 1..Len(text) :
             /\ text[i] = lexeme
             /\ \A k \in 1..(i - 1) : text[k] # lexeme
    ELSE 0

\* CursorApiResearch.updateCursorRules
updateCursorRules(existingContent, newRules) ==
    LET startIndex == indexOf(existingContent, StartMarker)
        endIndex == indexOf(existingContent, EndMarker)
    IN  IF startIndex # 0 /\ endIndex # 0
        THEN LET before == SubSeq(existingContent, 1, startIndex - 1)
                 after == SubSeq(existingContent, endIndex + 1, Len(existingContent))
             IN  before \o newRules \o after
        ELSE existingContent \o <<NL, NL>> \o newRules

\* CursorApiResearch.injectViaCursorRules: what it writes to the file
injectViaCursorRules(existingContent, ms) ==
    LET rulesContent == formatMemoriesAsRules(ms)
    IN  IF indexOf(existingContent, StartMarker) # 0
        THEN updateCursorRules(existingContent, rulesContent)
        ELSE existingContent \o <<NL, NL>> \o rulesContent

\* The records a caller passes
RulePool ==
    { Mem(1, <<"never", " ", "panic">>, "architecture", "critical", <<>>, <<>>),
      Mem(2, <<"wrap", " ", "errors">>, "code_style", "high", <<>>, <<>>),
      Mem(3, <<"express", " ", "routers">>, "api_spec", "medium", <<>>, <<>>) }

RuleArgs == SeqsUpTo(RulePool, MaxRules)

\* The .cursorrules file of a project before the first injection: none or an
\* empty one, or rules the user wrote
UserRules ==
    { <<>>,
      <<"# team rules", NL, "use tabs", NL>>,
      <<"use tabs">> }

\* One call of injectViaCursorRules in a workspace folder
InjectViaCursorRules ==
    \E ms \in RuleArgs :
        /\ ruleCall.n < MaxInjections
        /\ rulesFile' = injectViaCursorRules(rulesFile, ms)
        /\ ruleCall' = [n |-> ruleCall.n + 1, memories |-> ms, before |-> rulesFile,
                        repeated |-> ruleCall.n >= 1 /\ ruleCall.memories = ms]
        /\ UNCHANGED <<memories, upkeep, calls, faultVars, injectionVars, recognizerVars,
                       historyVars, injectorVars, validatorVars, editorVars>>

RulesInit ==
    /\ memories = <<>>
    /\ rulesFile \in UserRules
    /\ ruleCall = NoRuleCall
    /\ upkeep = NoUpkeep
    /\ calls = <<>>
    /\ FaultIdle /\ InjectionIdle /\ RecognizerIdle /\ HistoryIdle
    /\ ValidatorIdle
    /\ InjectorIdle
    /\ EditorIdle

RulesNext == InjectViaCursorRules

SpecRules == RulesInit /\ [][RulesNext]_vars
(* Claims about the Selector.                                              *)
(***************************************************************************)
NotCritical(m) == ~IsCritical(m)

\* C1: whatever the corpus and the file, every critical record of the corpus is
\* in the output of getRelevantMemoriesForFile, with a file path and without.
C1_CriticalAlwaysSelected ==
    sel.called =>
        \A i \in 1..Len(memories) :
            IsCritical(memories[i]) => \E j \in 1..Len(sel.out) : sel.out[j] = memories[i]

\* A call with a file path on a corpus of more critical records than the cap.
C1_Witness ==
    /\ sel.called
    /\ sel.file # NoFile
    /\ Count(memories, IsCritical) > TotalCap
    /\ Count(sel.out, IsCritical) > TotalCap

\* C2: with a file path, the cap of 20 counts the critical records first: the
\* output holds at most max(0, 20 - #critical) records that are not critical.
C2_CapCountsCriticalFirst ==
    (sel.called /\ sel.file # NoFile) =>
        Count(sel.out, NotCritical) <= Max(0, TotalCap - Count(memories, IsCritical))

(***************************************************************************)
(* Claims about the Compressor.                                            *)
(***************************************************************************)
Forced(e) == e.forced
Unforced(e) == ~e.forced
TokensOf(entries) == SumSeq([i \in 1..Len(entries) |-> estimateTokens(entries[i].content)])

\* C3: the records kept under the budget check cost at most the budget in
\* estimated tokens; only force-included records, all of them critical, may
\* exceed it, and there are never more than 20 of them.
C3_BudgetInvariant ==
    cmp.called =>
        /\ TokensOf(SelectSeq(cmp.compressed, Unforced)) <= cmp.maxTokens
        /\ Count(cmp.compressed, Forced) <= ForcedCap
        /\ \A i \in 1..Len(cmp.compressed) :
               cmp.compressed[i].forced => cmp.compressed[i].importance = "critical"

\* A record was kept under the budget, another was forced in, and together they
\* cost more than the budget.
C3_Witness ==
    /\ cmp.called
    /\ Count(cmp.compressed, Forced) > 0
    /\ Count(cmp.compressed, Unforced) > 0
    /\ TokensOf(cmp.compressed) > cmp.maxTokens

\* C4: every critical record of the selection (up to the cap of 20 critical
\* entries) is printed in the bundle, in full or in its aggressively compressed
\* form, also when the running total exceeds the budget.
C4_AllCriticalSurvive ==
    (cmp.called /\ Count(cmp.memories, IsCritical) <= ForcedCap) =>
        \A i \in 1..Len(cmp.memories) :
            IsCritical(cmp.memories[i]) =>
                \E j \in 1..Len(cmp.printed.critical) :
                    /\ cmp.printed.critical[j].id = cmp.memories[i].id
                    /\ cmp.printed.critical[j].content \in
                           {compressContent(cmp.memories[i].content, FALSE),
                            compressContent(cmp.memories[i].content, TRUE)}
                    /\ Includes(cmp.context,
                                BundleLine("[check] ", cmp.printed.critical[j].content))

(***************************************************************************)
(* Claims about the Validator.                                             *)
(***************************************************************************)
\* C5: two successive calls of validateCode on one validator with the same
\* code, path and language, the store being the same at both calls, return the
\* same issues in the same order, whatever time passed between them and
\* whatever the checker had loaded.
C5_SameInputSameIssues ==
    [][(/\ last.n > 0
        /\ last'.n = last.n + 1
        /\ last'.doc = last.doc
        /\ last'.corpus = last.corpus)
       => last'.result.issues = last.result.issues]_vars

ErrorIssue(issue) == issue.type = "error"
IssueOf(issues, id, type) ==
    \E i \in 1..Len(issues) : issues[i].memoryId = id /\ issues[i].type = type

\* C6: for every record of the validator's corpus and every forbidden pattern
\* of it that the code contains, the result holds an error that names the
\* record if the record is critical, a warning that names it if it is high.
C6_SeverityFollowsImportance ==
    last.n > 0 =>
        \A i \in 1..Len(vld.memories) :
            LET m == vld.memories[i] IN
            (\E k \in 1..Len(extractForbiddenPatterns(m.content)) :
                 Includes(last.doc.code, extractForbiddenPatterns(m.content)[k]))
            => /\ m.importance = "critical" => IssueOf(last.result.issues, m.id, "error")
               /\ m.importance = "high" => IssueOf(last.result.issues, m.id, "warning")

\* C7: when the corpus is one critical architecture record that forbids one
\* literal and the code contains the literal, the result holds exactly one
\* error, and that error names the record.
C7_ExactlyOneError ==
    (/\ last.n > 0
     /\ Len(vld.memories) = 1
     /\ last.corpus = vld.memories
     /\ vld.memories[1].category = "architecture"
     /\ IsCritical(vld.memories[1])
     /\ Len(extractForbiddenPatterns(vld.memories[1].content)) = 1
     /\ Includes(last.doc.code, extractForbiddenPatterns(vld.memories[1].content)[1]))
    => /\ Count(last.result.issues, ErrorIssue) = 1
       /\ IssueOf(last.result.issues, vld.memories[1].id, "error")

CountShown(summary, type) ==
    LET shown == SelectSeq(summary.counts, LAMBDA c : c.type = type)
    IN  IF shown = <<>> THEN 0 ELSE shown[1].count

\* C8: passed is true exactly when no issue is an error; the summary reports a
\* failure exactly when passed is false; every count the summary prints is the
\* number of issues of that severity, and a severity it does not print has none.
C8_PassedAndSummary ==
    last.n > 0 =>
        LET r == last.result IN
        /\ r.passed = (Count(r.issues, ErrorIssue) = 0)
        /\ (r.summary.verdict = "failed") = ~r.passed
        /\ \A type \in {"error", "warning", "info"} :
               CountShown(r.summary, type) = CountType(r.issues, type)

\* A failed validation whose issues are of more than one severity.
C8_Witness ==
    /\ last.n > 0
    /\ ~last.result.passed
    /\ CountType(last.result.issues, "error") > 1
    /\ CountType(last.result.issues, "warning") > 0

(***************************************************************************)
(* Claims about the editor glue.                                           *)
(***************************************************************************)
\* C9: the validation a document change has scheduled stays scheduled for that
\* document until it runs or a later change of the same document replaces it:
\* no event of another document takes it away.
C9_DebouncePerDocument ==
    [][timer.pending => timer'.doc = timer.doc]_vars

\* C10: after a completed validation of a document, what the editor shows for
\* the document is exactly the diagnostics of that validation, none at all when
\* the corpus was empty.
C10_ValidationOverwrites ==
    done.valid => shownFor(done.uri, diag, manual) = done.diagnostics

(***************************************************************************)
(* Claims about the order of the Selector's output.                        *)
(***************************************************************************)
\* C14: the critical records of the output of getRelevantMemoriesForFile are
\* the critical records of the corpus in the order of the corpus, whatever their
\* scores.
C14_CriticalInCorpusOrder ==
    sel.called => SelectSeq(sel.out, IsCritical) = SelectSeq(memories, IsCritical)

\* The score calculateRelevance gave a record in the last call
ScoreInCall(m) == calculateRelevance(m, extractCodeFeatures(sel.file))

\* C15: in a call with a file path, the records of the output that are not
\* critical are in descending order of score, and two of them of the same score
\* are in the order of the corpus (the id of a record is its place in the corpus).
C15_OthersByScoreStable ==
    (sel.called /\ sel.file # NoFile) =>
        \A i, j \in 1..Len(SelectSeq(sel.out, NotCritical)) :
            i < j =>
                \/ ScoreInCall(SelectSeq(sel.out, NotCritical)[i])
                       > ScoreInCall(SelectSeq(sel.out, NotCritical)[j])
                \/ /\ ScoreInCall(SelectSeq(sel.out, NotCritical)[i])
                          = ScoreInCall(SelectSeq(sel.out, NotCritical)[j])
                   /\ SelectSeq(sel.out, NotCritical)[i].id
                          < SelectSeq(sel.out, NotCritical)[j].id

\* A call that returns two records of the same score that are not critical.
C15_Witness ==
    /\ sel.called
    /\ sel.file # NoFile
    /\ Len(SelectSeq(sel.out, NotCritical)) = 2
    /\ ScoreInCall(SelectSeq(sel.out, NotCritical)[1])
           = ScoreInCall(SelectSeq(sel.out, NotCritical)[2])

(***************************************************************************)
(* Claims about the text of the bundle.                                    *)
(***************************************************************************)
TierBullets == <<"[check] ", "[bullet] ", "- ">>
TierNames == <<"critical", "high", "medium">>

\* The lines of the last bundle that print a record (a line that begins with
\* the bullet of a tier, up to its line break), and those of one tier
LineAt(i) ==
    SubSeq(cmp.context, i, FirstIn({j \in i..Len(cmp.context) : cmp.context[j] = "\n"}) - 1)
RecordLines ==
    Map(SelectSeq(Indices(cmp.context),
                  LAMBDA i : /\ \E t \in 1..3 : cmp.context[i] = TierBullets[t]
                             /\ cmp.context[i - 1] = "\n"),
        LineAt)
TierLines(t) == SelectSeq(RecordLines, LAMBDA line : line[1] = TierBullets[t])
TierOf(line) == CHOOSE t \in 1..3 : line[1] = TierBullets[t]

\* The records of a tier in the selection, in the order of the selection
TierRecords(t) == SelectSeq(cmp.memories, LAMBDA m : m.importance = TierNames[t])

\* The two forms compressMemories gives the content of a record
FormsOf(content) == {compressContent(content, FALSE), compressContent(content, TRUE)}

\* C19: the record lines of the bundle come tier by tier, critical, then high,
\* then medium; the lines of a tier print the first records of that tier in the
\* order of the selection; no line prints a record of low importance.
C19_TierByTierInOrder ==
    cmp.called =>
        /\ \A i, j \in 1..Len(RecordLines) :
               i < j => TierOf(RecordLines[i]) <= TierOf(RecordLines[j])
        /\ \A t \in 1..3 :
               /\ Len(TierLines(t)) <= Len(TierRecords(t))
               /\ \A k \in 1..Len(TierLines(t)) :
                      Tail(TierLines(t)[k]) \in FormsOf(TierRecords(t)[k].content)

\* A bundle that prints a critical record and, after it, a record of another
\* tier that stands before it in the selection.
C19_Witness ==
    /\ cmp.called
    /\ Len(TierLines(1)) >= 1
    /\ Len(TierLines(2)) + Len(TierLines(3)) >= 1
    /\ ~IsCritical(cmp.memories[1])

\* C20: a record kept under the budget check has in the bundle its whole
\* content, consecutive white space collapsed and the ends trimmed, without a cut
\* and without an elision mark.
C20_FullContentUnderBudget ==
    cmp.called =>
        \A i \in 1..Len(cmp.compressed) :
            ~cmp.compressed[i].forced =>
                cmp.compressed[i].content
                    = Trim(CollapseWs(cmp.memories[cmp.compressed[i].id].content))

\* C11: selection, compression and validation leave the stored corpus as it
\* is: every step in which a selection, a bundle, the validator or a
\* validation result changes keeps the store unchanged.
C11_CoreLeavesStoreUnchanged ==
    [][(sel' # sel \/ cmp' # cmp \/ vld' # vld \/ last' # last)
          => memories' = memories]_vars

\* A non-empty store after a compressed context was built from it and a
\* document was validated against it.
C11_Witness ==
    /\ memories # <<>>
    /\ cmp.called /\ cmp.memories # <<>>
    /\ sel.called /\ sel.out = cmp.memories
    /\ last.n >= 1 /\ last.corpus = memories
    /\ vld.made


\* The well-formed records of the store
WellFormed == SelectSeq(memories, LAMBDA m : m.id \notin missing)

\* C12: a stored record without a required field is skipped: a selection or a
\* validation on the store completes and returns what it returns on the
\* well-formed records alone.
C12_MalformedSkipped ==
    /\ outcome.op = "select" =>
          /\ ~outcome.threw
          /\ outcome.out = getRelevantMemoriesForFile(WellFormed, outcome.file)
    /\ outcome.op = "validate" =>
          /\ ~outcome.threw
          /\ outcome.out = validateCode(outcome.doc, WellFormed, outcome.checker,
                                        archOfNew(WellFormed, {}, outcome.checker))


Established ==
    SelectSeq(found.established, LAMBDA p : /\ p.language = found.language
                                            /\ p.frequency >= FrequentCount)

CheckedKey == generatePatternKey(normalizeCode(found.code))

\* C16: once recognizePatterns has established a common pattern (frequency
\* >= 5) for a language, a snippet of that language whose similarity to every
\* such pattern is below 0.3 gets exactly one inconsistency diagnostic, which
\* names one of them, and a snippet that is similar to one gets none.
C16_OneDiagnosticWhenDissimilar ==
    (found.checked /\ Established # <<>>) =>
        IF \A i \in 1..Len(Established) : dissimilar(CheckedKey, Established[i].pattern)
        THEN /\ Len(found.issues) = 1
             /\ \E i \in 1..Len(Established) :
                   found.issues[1].message = <<"inconsistent with", Established[i].name>>
        ELSE found.issues = <<>>


\* C17: a rollback to a version of the history records a backup that holds
\* the store as it was and then makes the snapshot of that version the store:
\* the store after the rollback is the snapshot of the entry rolled back to,
\* and the entry of the backup holds the store before it.
C17_RollbackRestoresSnapshot ==
    rolled.called =>
        /\ rolled.after = versions[rolled.picked].memories
        /\ versions[rolled.backup].memories = rolled.before


\* C18: when the injectMemories command has reported an injection, the
\* memories are injected: handed to Cursor if it said so, and otherwise in the
\* file as a comment block, or at least on their way into it.
C18_ReportedInjectionHappened ==
    /\ report = "injected through the Cursor API" => cursorRules.injected
    /\ report = "injected as a comment" =>
          buffer[Len(buffer)].blocks >= 1 \/ Pending # {}

(***************************************************************************)
(* Claims about the threshold of the Selector.                             *)
(***************************************************************************)
\* C21: in a call with a file path, a record of the output that is not critical
\* has a relevance score strictly greater than 10 (100 tenths); a record of the
\* corpus that is not critical and scores 0 is not in the output.
C21_OthersAboveThreshold ==
    (sel.called /\ sel.file # NoFile) =>
        /\ \A i \in 1..Len(sel.out) :
               ~IsCritical(sel.out[i]) => ScoreInCall(sel.out[i]) > ScoreThreshold * 10
        /\ \A i \in 1..Len(memories) :
               (~IsCritical(memories[i]) /\ ScoreInCall(memories[i]) = 0) =>
                   \A j \in 1..Len(sel.out) : sel.out[j] # memories[i]

\* A call with a file path that returns a record that is not critical and
\* leaves out a record that is not critical and scores 0.
C21_Witness ==
    /\ sel.called
    /\ sel.file # NoFile
    /\ \E i \in 1..Len(sel.out) : ~IsCritical(sel.out[i])
    /\ \E i \in 1..Len(memories) :
           /\ ~IsCritical(memories[i])
           /\ ScoreInCall(memories[i]) = 0
           /\ \A j \in 1..Len(sel.out) : sel.out[j] # memories[i]

(***************************************************************************)
(* Claims about the relevance score.                                       *)
(***************************************************************************)
\* The number of elements of a list that pass a test
Hits(s, Test(_)) == Cardinality({i \in 1..Len(s) : Test(s[i])})

InContent(m, w) == Includes(LowerText(m.content), LowerText(w))
InTags(m, w) == \E i \in 1..Len(m.tags) : Includes(LowerText(m.tags[i]), LowerText(w))
TagInFeatures(f, tag) ==
    \E w \in {f.fileName, f.fileDir} \cup {f.functions[i] : i \in 1..Len(f.functions)}
             \cup {f.classes[i] : i \in 1..Len(f.classes)}
             \cup {f.keywords[i] : i \in 1..Len(f.keywords)} :
        Includes(LowerText(w), LowerText(tag))
FeatureWords(f) == SplitWs(LowerText(JoinSp(f.functions \o f.classes \o f.keywords)))

\* The sum of the signals of a record for the features of a file
SignalSum(m, f) ==
      (IF m.importance = "critical" THEN 100 ELSE 0)
    + (IF \E i \in 1..Len(m.relatedFiles) :
              Includes(f.filePath, m.relatedFiles[i]) \/ Includes(m.relatedFiles[i], f.filePath)
       THEN 50 ELSE 0)
    + 10 * Hits(m.tags, LAMBDA tag : TagInFeatures(f, tag))
    + 5 * Hits(f.functions, LAMBDA w : InContent(m, w) \/ InTags(m, w))
    + 5 * Hits(f.classes, LAMBDA w : InContent(m, w) \/ InTags(m, w))
    + 3 * Hits(f.imports, LAMBDA w : InContent(m, w))
    + 2 * Hits(f.keywords, LAMBDA w : InContent(m, w) \/ InTags(m, w))
    + 1 * Hits(FeatureWords(f), LAMBDA w : CharLen(w) > 3 /\ InContent(m, w))

\* C22: the score calculateRelevance gives a record is the sum of the signals
\* (100 critical, 50 related file, 10 per tag, 5 per function, 5 per class, 3 per
\* import, 2 per keyword, 1 per feature word of more than 3 characters in the
\* content) times 1.5 for high, 1.2 for medium, 1 for low and critical
\* importance.  Scores are in tenths.
C22_RelevanceIsWeightedSum ==
    (sel.called /\ sel.file # NoFile) =>
        \A i \in 1..Len(memories) :
            ScoreInCall(memories[i]) =
                SignalSum(memories[i], extractCodeFeatures(sel.file)) *
                    (CASE memories[i].importance = "high" -> 15
                       [] memories[i].importance = "medium" -> 12
                       [] OTHER -> 10)

\* A call on a file whose function, class and keyword names a high record
\* holds (5 + 5 + 2 + 3 words, times 1.5) and whose import and name a medium
\* record holds (10 + 3, times 1.2).
C22_Witness ==
    /\ sel.called
    /\ sel.file # NoFile
    /\ \E i \in 1..Len(memories) :
           memories[i].importance = "high" /\ ScoreInCall(memories[i]) = 225
    /\ \E i \in 1..Len(memories) :
           memories[i].importance = "medium" /\ ScoreInCall(memories[i]) = 156

(***************************************************************************)
(* Claims about the severity of naming and business-rule diagnostics.      *)
(***************************************************************************)
\* The diagnostics validateNaming gave in the last validation
NamingIssuesOfRun == validateNaming(last.doc.code, last.doc.language, vld.memories)

\* C23: a naming violation found under a naming record is reported as an error
\* if the record is critical and as a warning if it is high; a violation of the
\* default convention of the language, found when there is no naming record, is
\* reported as a warning.
C23_NamingSeverityFollowsRecord ==
    last.n > 0 =>
        \A i \in 1..Len(NamingIssuesOfRun) :
            LET issue == NamingIssuesOfRun[i] IN
            /\ \E j \in 1..Len(last.result.issues) : last.result.issues[j] = issue
            /\ issue.memoryId = NoMemory.id => issue.type = "warning"
            /\ \A k \in 1..Len(vld.memories) :
                   vld.memories[k].id = issue.memoryId =>
                       /\ vld.memories[k].importance = "critical" => issue.type = "error"
                       /\ vld.memories[k].importance = "high" => issue.type = "warning"

\* The diagnostics validateBusinessRules gave in the last validation
BusinessIssuesOfRun == validateBusinessRules(last.doc.code, vld.memories)

\* C24: every diagnostic of the business-rule check is an error of the result
\* that names a critical business-rule record one of whose keywords the code
\* contains; no other record gets a business-rule diagnostic.
C24_BusinessRulesGatedErrors ==
    last.n > 0 =>
        \A i \in 1..Len(BusinessIssuesOfRun) :
            LET issue == BusinessIssuesOfRun[i] IN
            /\ issue.type = "error"
            /\ \E j \in 1..Len(last.result.issues) : last.result.issues[j] = issue
            /\ \E k \in 1..Len(vld.memories) :
                   /\ vld.memories[k].id = issue.memoryId
                   /\ vld.memories[k].category = "business_rule"
                   /\ vld.memories[k].importance = "critical"
                   /\ \E w \in 1..Len(extractKeywords(vld.memories[k].content)) :
                          Includes(LowerText(last.doc.code),
                                   LowerText(extractKeywords(vld.memories[k].content)[w]))

\* A validation that reports a business-rule diagnostic.
C24_Witness ==
    /\ last.n > 0
    /\ Len(BusinessIssuesOfRun) >= 1

(***************************************************************************)
(* Claims about the progress of the live validation.                       *)
(***************************************************************************)
\* C25: if change events stop at some point, every document of a validated
\* type that got a change event gets a scheduled validation after its last
\* change, whatever change events other documents got in the meantime.
C25_ChangedEventuallyValidated ==
    (<>[][~ChangeDocument]_vars) =>
        \A uri \in {u \in Uris : ~skipped(u)} :
            (uri \in awaiting) ~> (uri \notin awaiting)

(***************************************************************************)
(* Claims about the identifiers of the version history.                    *)
(***************************************************************************)
\* C26: the entries of the version history have pairwise distinct version
\* identifiers, so the entry found for the identifier of an entry is that entry.
C26_VersionIdsDistinct ==
    /\ \A i, j \in 1..Len(versions) :
           i # j => versions[i].version # versions[j].version
    /\ \A i \in 1..Len(versions) : findVersion(versions, versions[i].version) = i

(***************************************************************************)
(* Claims about the maintenance of the store.                              *)
(***************************************************************************)
\* A record of the store before the last maintenance call that the store does
\* not hold after it
RemovedByUpkeep(i) ==
    \A j \in 1..Len(upkeep.after) : upkeep.after[j].id # upkeep.before[i].id

\* C27: cleanExpiredMemories and the merge of the refresh remove no critical
\* and no high record; a medium or low record they remove is at least the
\* maximum age old; cleanExpiredMemories returns the number of records it
\* removed.
C27_OnlyExpiredLowRemoved ==
    upkeep.op \in {"clean", "merge"} =>
        /\ \A i \in 1..Len(upkeep.before) :
               RemovedByUpkeep(i) =>
                   /\ upkeep.before[i].importance \in {"medium", "low"}
                   /\ upkeep.time - upkeep.before[i].timestamp >= upkeep.maxAge
        /\ upkeep.op = "clean" =>
               upkeep.returned =
                   Cardinality({i \in 1..Len(upkeep.before) : RemovedByUpkeep(i)})

\* A call of cleanExpiredMemories that removed a record and kept a high or
\* critical record of at least the maximum age.
C27_Witness ==
    /\ upkeep.op = "clean"
    /\ upkeep.returned = 1
    /\ \E i \in 1..Len(upkeep.before) :
           /\ ~RemovedByUpkeep(i)
           /\ upkeep.before[i].importance \in {"critical", "high"}
           /\ upkeep.time - upkeep.before[i].timestamp >= upkeep.maxAge

\* C28: autoAdjustImportance leaves the importance of a critical record as it
\* is and makes no record critical; the importance of a record stays or goes
\* from low to medium, from medium to high or from high to medium; the store is
\* saved only if the importance of some record changed.
C28_AdjustByOneLevel ==
    upkeep.op = "adjust" =>
        /\ Len(upkeep.after) = Len(upkeep.before)
        /\ \A i \in 1..Len(upkeep.before) :
               /\ upkeep.after[i].id = upkeep.before[i].id
               /\ (upkeep.before[i].importance = "critical")
                      <=> (upkeep.after[i].importance = "critical")
               /\ \/ upkeep.after[i].importance = upkeep.before[i].importance
                  \/ <<upkeep.before[i].importance, upkeep.after[i].importance>>
                         \in {<<"low", "medium">>, <<"medium", "high">>, <<"high", "medium">>}
        /\ upkeep.saved =>
               \E i \in 1..Len(upkeep.before) :
                   upkeep.after[i].importance # upkeep.before[i].importance
        /\ ~upkeep.saved => memories = upkeep.before

\* A call of autoAdjustImportance that raised a record and was saved, on a
\* store that holds a critical record.
C28_Witness ==
    /\ upkeep.op = "adjust"
    /\ upkeep.saved
    /\ memories = upkeep.after
    /\ \E i \in 1..Len(upkeep.before) : upkeep.before[i].importance = "critical"
    /\ \E i \in 1..Len(upkeep.before) :
           /\ upkeep.before[i].importance = "low"
           /\ upkeep.after[i].importance = "medium"

(***************************************************************************)
(* Claims about operations on the store that overlap.                      *)
(***************************************************************************)
\* A later operation of the list deleted the record
DeletedLater(i, id) ==
    \E j \in (i + 1)..Len(calls) : calls[j].kind = "delete" /\ calls[j].id = id

\* The effect of the operation is in the store
EffectPresent(i) ==
    /\ \A id \in calls[i].added : id \in Ids(memories) \/ DeletedLater(i, id)
    /\ calls[i].kind = "delete" => calls[i].id \notin Ids(memories)
    /\ calls[i].kind = "update" /\ findIndex(calls[i].loaded, calls[i].id) # 0 =>
           \/ DeletedLater(i, calls[i].id)
           \/ \E k \in 1..Len(memories) :
                  /\ memories[k].id = calls[i].id
                  /\ memories[k].importance = calls[i].importance

\* C29: once operations on the store that overlapped have all completed, the
\* effect of each of them is in the store: a record one of them added is not
\* lost through the save of another.
C29_OverlappingEffectsKept ==
    quiet /\ Len(calls) >= 2 => \A i \in 1..Len(calls) : EffectPresent(i)

(***************************************************************************)
(* Claims about the injection through .cursorrules.                        *)
(***************************************************************************)
\* The lexemes from the start marker to the end marker
blockOf(text) == SubSeq(text, indexOf(text, StartMarker), indexOf(text, EndMarker))

\* C30: after any calls of injectViaCursorRules the file holds one start
\* marker and one end marker with the memories of the last call between them,
\* and a call with the memories of the call before it leaves the file as it
\* was, byte for byte.
C30_InjectionIdempotent ==
    ruleCall.n >= 1 =>
        /\ CountLexeme(rulesFile, StartMarker) = 1
        /\ CountLexeme(rulesFile, EndMarker) = 1
        /\ LET rules == formatMemoriesAsRules(ruleCall.memories)
           IN  blockOf(rulesFile) = SubSeq(rules, 2, Len(rules) - 1)
        /\ ruleCall.repeated => rulesFile = ruleCall.before











====
